---- MODULE Spec2Model ----
(***************************************************************************)
(* A model of NanoServer's query engine (database.py): the query           *)
(* classifier is_read_query, the DatabaseManager with its connection       *)
(* handling, its transaction() and the schema helpers built on execute;    *)
(* of the port search find_available_port and the PHPServer with its       *)
(* child processes and log-capture threads (server.py); and of the         *)
(* preferences Config keeps in config.json (config.py).                    *)
(*                                                                         *)
(* Text is modelled as a sequence of one-character strings, so that the    *)
(* classifier is computed character by character as the code computes it.  *)
(***************************************************************************)
EXTENDS Integers, Sequences, FiniteSets, TLC

\* ------------------------------------------------------------------------
\* Bounds
\* ------------------------------------------------------------------------

\* The number of pieces (separators, comments, comment markers, words) a
\* classified text is put together from.
MaxPieces == 3

\* The number of characters of a name given to the identifier validator.
MaxName == 3

\* The number of calls of execute, list_tables and get_table_info in a run.
MaxCalls == 3

\* ------------------------------------------------------------------------
\* Characters and Python's str helpers
\* ------------------------------------------------------------------------

TAB == "\t"
LF == "\n"
CR == "\r"
SP == " "
SEMI == ";"

LowerLetters ==
  <<"a","b","c","d","e","f","g","h","i","j","k","l","m",
    "n","o","p","q","r","s","t","u","v","w","x","y","z">>

UpperLetters ==
  <<"A","B","C","D","E","F","G","H","I","J","K","L","M",
    "N","O","P","Q","R","S","T","U","V","W","X","Y","Z">>

Digits == {"0","1","2","3","4","5","6","7","8","9"}

Range(s) == {s[i] : i \in DOMAIN s}

Letters == Range(LowerLetters) \cup Range(UpperLetters)

\* str.upper() on one character.
UpperChar(c) ==
  IF \E i \in DOMAIN LowerLetters : LowerLetters[i] = c
  THEN UpperLetters[CHOOSE i \in DOMAIN LowerLetters : LowerLetters[i] = c]
  ELSE c

\* str.upper()
Upper(s) == [i \in DOMAIN s |-> UpperChar(s[i])]

\* The characters str.split() and str.strip() treat as whitespace, among the
\* characters of the model.
PyWhitespace == {SP, TAB, LF, CR}

\* The argument of lstrip in is_read_query: '; \t\n'.
StripChars == {SEMI, SP, TAB, LF}

\* s[from:] of Python, with from a 0-based index.
Drop(s, from) == IF from >= Len(s) THEN <<>> ELSE SubSeq(s, from + 1, Len(s))

\* str.lstrip(chars)
RECURSIVE LStrip(_, _)
LStrip(s, chars) ==
  IF s # <<>> /\ Head(s) \in chars THEN LStrip(Tail(s), chars) ELSE s

\* str.startswith(prefix)
StartsWith(s, prefix) ==
  Len(s) >= Len(prefix) /\ SubSeq(s, 1, Len(prefix)) = prefix

\* str.find(sub): the least 0-based index at which sub occurs, or -1.
Find(s, sub) ==
  LET hits == {i \in 0..(Len(s) - Len(sub)) : SubSeq(s, i + 1, i + Len(sub)) = sub}
  IN IF hits = {} THEN -1 ELSE CHOOSE i \in hits : \A j \in hits : i <= j

\* str.split()[0] if str.split() else '': the first maximal run of
\* non-whitespace characters.
RECURSIVE TakeWord(_)
TakeWord(s) ==
  IF s = <<>> \/ Head(s) \in PyWhitespace THEN <<>>
  ELSE <<Head(s)>> \o TakeWord(Tail(s))

FirstWord(s) == TakeWord(LStrip(s, PyWhitespace))

\* ------------------------------------------------------------------------
\* is_read_query
\* ------------------------------------------------------------------------

DASHES == <<"-","-">>
OPENC == <<"/","*">>
CLOSEC == <<"*","/">>

KW_SELECT == <<"S","E","L","E","C","T">>
KW_PRAGMA == <<"P","R","A","G","M","A">>
KW_EXPLAIN == <<"E","X","P","L","A","I","N">>
KW_WITH == <<"W","I","T","H">>

\* The keyword set with WITH left out.
read_only_keywords_NoWith == {KW_SELECT, KW_PRAGMA, KW_EXPLAIN}

read_only_keywords == {KW_SELECT, KW_PRAGMA, KW_EXPLAIN, KW_WITH}

\* One turn of the while loop: drop the comment the text starts with, then
\* strip again.
SkipComment(cleaned) ==
  LET rest ==
        IF StartsWith(cleaned, DASHES)
        THEN LET newline == Find(cleaned, <<LF>>)
             IN IF newline # -1 THEN Drop(cleaned, newline + 1) ELSE <<>>
        ELSE LET end == Find(cleaned, CLOSEC)
             IN IF end # -1 THEN Drop(cleaned, end + 2) ELSE <<>>
  IN LStrip(rest, StripChars)

\* The while loop, from the text it is entered with to the text it leaves.
RECURSIVE SkipComments(_)
SkipComments(cleaned) ==
  IF StartsWith(cleaned, DASHES) \/ StartsWith(cleaned, OPENC)
  THEN SkipComments(SkipComment(cleaned))
  ELSE cleaned

\* The value of `cleaned` when the loop is left.
Cleaned(query) == SkipComments(LStrip(query, StripChars))

is_read_query(query) ==
  LET cleaned == Cleaned(query)
  IN IF cleaned = <<>> THEN TRUE
     ELSE Upper(FirstWord(cleaned)) \in read_only_keywords

\* ------------------------------------------------------------------------
\* The classifier applied to bounded texts
\* ------------------------------------------------------------------------

W_select == <<"s","e","l","e","c","t">>
W_With == <<"W","i","t","h">>
W_INSERT == <<"I","N","S","E","R","T">>
W_drop == <<"d","r","o","p">>
W_x == <<"x">>

Separators == {<<SEMI>>, <<SP>>, <<TAB>>, <<LF>>, <<CR>>}

Words == {KW_SELECT, W_select, KW_PRAGMA, KW_EXPLAIN, W_With, W_INSERT, W_drop, W_x}

\* What a query text is put together from.
QueryPieces == Separators \cup Words \cup {DASHES, OPENC, CLOSEC, <<"/">>}

CommentBodies == {<<>>, <<"x">>, <<"/">>, <<SP, "x">>}

LineComment(body) == DASHES \o body \o <<LF>>
BlockComment(body) == OPENC \o body \o CLOSEC

LineComments == {LineComment(b) : b \in CommentBodies}
BlockComments == {BlockComment(b) : b \in CommentBodies}

\* What a prefix is put together from.
PrefixPieces == Separators \cup LineComments \cup BlockComments

RECURSIVE Concat(_)
Concat(ps) == IF ps = <<>> THEN <<>> ELSE Head(ps) \o Concat(Tail(ps))

\* The texts made of exactly n pieces.
TextsOf(pieces, n) == {Concat(ps) : ps \in [1..n -> pieces]}

\* ------------------------------------------------------------------------
\* The storage engine behind sqlite3.connect, cursor.execute, conn.commit
\* and conn.close, as far as DatabaseManager uses it
\* ------------------------------------------------------------------------

\* Python's None.
NONE == "<None>"


\* No connection handle.
NOCONN == "<no connection>"

FilePaths == {"a.sqlite", "b.sqlite"}

DirPaths == {"dir"}

\* The values self.db_path takes.
PathValues == {NONE, ""} \cup FilePaths \cup DirPaths

\* Table names, in lexicographic order.
TableOrder == <<"a", "b">>

Tables == Range(TableOrder)

\* The values of the id column, the primary key.
Vals == {1, 2}

Columns == <<"id", "name">>

\* A store: its tables in the order they were created, and the ids of
\* each table's rows.
EmptyStore == [exists |-> TRUE, order |-> <<>>, rows |-> [t \in Tables |-> {}]]

\* What stands for the store of a path with no file behind it.
ABSENT == [exists |-> FALSE, order |-> <<>>, rows |-> [t \in Tables |-> {}]]

\* cursor.description of a statement that returns no rows (None).
NO_DESCRIPTION == <<>>

\* The ascending sequence of a set of numbers.
RECURSIVE SortedIds(_)
SortedIds(S) ==
  IF S = {} THEN <<>>
  ELSE LET m == CHOOSE x \in S : \A y \in S : x <= y
       IN <<m>> \o SortedIds(S \ {m})

\* SELECT * FROM t: the rows in primary-key order.
TableRows(store, t) ==
  LET ids == SortedIds(store.rows[t])
  IN [i \in DOMAIN ids |-> <<ids[i], "n">>]

\* The same query without its ORDER BY clause: the tables as sqlite_master
\* holds them, in the order of their creation.
MasterRows_CreationOrder(store) ==
  [i \in DOMAIN store.order |-> <<store.order[i]>>]

\* SELECT name FROM sqlite_master WHERE type='table' ORDER BY name
MasterRows(store) ==
  LET present == {i \in DOMAIN TableOrder : TableOrder[i] \in Range(store.order)}
      ranks == SortedIds(present)
  IN [i \in DOMAIN ranks |-> <<TableOrder[ranks[i]]>>]

\* PRAGMA table_info(t): cid, name, type, notnull, dflt_value, pk.
InfoRows(store, t) ==
  IF t \in Range(store.order)
  THEN << <<0, "id", "INTEGER", 0, NONE, 1>>, <<1, "name", "TEXT", 0, NONE, 0>> >>
  ELSE <<>>

\* INSERT INTO t VALUES (v1), (v2), ...: the rows are inserted one by one
\* until one breaks the primary key.
RECURSIVE InsertIds(_, _, _)
InsertIds(ids, vs, n) ==
  IF vs = <<>> THEN [ok |-> TRUE, ids |-> ids, n |-> n]
  ELSE IF Head(vs) \in ids THEN [ok |-> FALSE, ids |-> ids, n |-> n]
  ELSE InsertIds(ids \cup {Head(vs)}, Tail(vs), n + 1)

RemoveName(order, t) == SelectSeq(order, LAMBDA x : x # t)

\* The exception classes execute tells apart.
SQLITE_ERROR == "sqlite3.Error"
OTHER_ERROR == "Exception"

Raised(store, exc, msg) ==
  [ok |-> FALSE, store |-> store, rows |-> <<>>, description |-> NO_DESCRIPTION,
   rowcount |-> -1, exc |-> exc, msg |-> msg]

Failure(store, msg) == Raised(store, SQLITE_ERROR, msg)

Success(store, rows, description, rowcount) ==
  [ok |-> TRUE, store |-> store, rows |-> rows, description |-> description,
   rowcount |-> rowcount, exc |-> "", msg |-> ""]

\* What one statement does to the store a connection sees, and the cursor
\* it leaves.
Apply(store, op) ==
  CASE op.kind = "create" ->
         IF op.table \in Range(store.order)
         THEN Failure(store, "table already exists")
         ELSE Success([store EXCEPT !.order = Append(@, op.table)], <<>>, NO_DESCRIPTION, -1)
    [] op.kind = "drop" ->
         IF op.table \notin Range(store.order)
         THEN Failure(store, "no such table")
         ELSE Success([store EXCEPT !.order = RemoveName(@, op.table),
                                    !.rows[op.table] = {}],
                      <<>>, NO_DESCRIPTION, -1)
    [] op.kind = "insert" ->
         IF op.table \notin Range(store.order)
         THEN Failure(store, "no such table")
         ELSE LET r == InsertIds(store.rows[op.table], op.vals, 0)
                  after == [store EXCEPT !.rows[op.table] = r.ids]
              IN IF r.ok THEN Success(after, <<>>, NO_DESCRIPTION, r.n)
                 \* INSERT OR FAIL keeps the rows inserted before the
                 \* failure; a plain INSERT takes them back.
                 ELSE IF op.or_fail THEN Failure(after, "UNIQUE constraint failed")
                 ELSE Failure(store, "UNIQUE constraint failed")
    [] op.kind = "select" ->
         IF op.table \notin Range(store.order)
         THEN Failure(store, "no such table")
         ELSE Success(store, TableRows(store, op.table), Columns, -1)
    [] op.kind = "tables" ->
         Success(store, MasterRows(store), <<"name">>, -1)
    [] op.kind = "table_info" ->
         Success(store, InfoRows(store, op.table),
                 <<"cid", "name", "type", "notnull", "dflt_value", "pk">>, -1)
    \* a text that cannot be encoded as UTF-8: UnicodeEncodeError, which
    \* is no sqlite3.Error
    [] op.kind = "unencodable" ->
         Raised(store, OTHER_ERROR, "surrogates not allowed")
    \* a text holding a null character: sqlite3.ProgrammingError
    [] op.kind = "embedded_null" ->
         Failure(store, "the query contains a null character")
    [] OTHER -> Failure(store, "syntax error")

\* The statements that change the store.
IsWriteOp(op) == op.kind \in {"create", "drop", "insert"}

\* The statements before which the sqlite3 module opens a transaction
\* (those it recognises as INSERT, UPDATE, DELETE or REPLACE); every other
\* statement runs in autocommit mode.
OpensTransaction(op) == op.kind = "insert" /\ op.dml

VARIABLES
  cl_prefix,   \* the prefix p put before the query
  cl_query,    \* the query q
  cl_pc,       \* "input" before the classifier has run, "done" after, "off"
  cl_plain,    \* is_read_query(q)
  cl_prefixed  \* is_read_query(p + q)

VARIABLES
  v_name,      \* the name given to the identifier validator
  v_pc,        \* "input", "done" or "off"
  v_result     \* what the validator returned

cl_vars == <<cl_prefix, cl_query, cl_pc, cl_plain, cl_prefixed>>

v_vars == <<v_name, v_pc, v_result>>

VARIABLES
  fp_start,      \* start_port
  fp_attempts,   \* max_attempts
  fp_listening,  \* the ports of localhost that accept a connection
  fp_i,          \* the loop variable i
  fp_pc,         \* "loop", "done", "raised" or "off"
  fp_result      \* what find_available_port returned

fp_vars == <<fp_start, fp_attempts, fp_listening, fp_i, fp_pc, fp_result>>

VARIABLES
  cfg_data,      \* self._data of the Config object in use
  cfg_file,      \* config.json in the configuration directory
  cfg_pc,        \* "loaded" after the constructor, "set" after set, "off"
  cfg_last,      \* the value most recently set for each key
  cfg_saved,     \* every save so far has succeeded
  cfg_sets       \* the number of set calls so far

cfg_vars == <<cfg_data, cfg_file, cfg_pc, cfg_last, cfg_saved, cfg_sets>>

VARIABLES
  srv_process,        \* self.process: the child held, 0 for None
  srv_is_running,     \* self.is_running
  srv_port,           \* self.port
  srv_document_root,  \* self.document_root
  srv_stop_logging,   \* the event self._stop_logging is set
  srv_log_thread,     \* self._log_thread: the thread held, 0 for None
  srv_children,       \* the php processes the server has spawned
  srv_threads,        \* the log-capture threads, one for each spawn
  srv_call,           \* the frame of the caller's call
  srv_delivered,      \* the lines given to on_log, with the thread that gave them
  srv_calls           \* the calls made so far

srv_vars == <<srv_process, srv_is_running, srv_port, srv_document_root,
              srv_stop_logging, srv_log_thread, srv_children, srv_threads,
              srv_call, srv_delivered, srv_calls>>

\* The variables of the server and configuration modules.
ext_vars == <<fp_vars, cfg_vars, srv_vars>>

\* ------------------------------------------------------------------------
\* DatabaseManager
\* ------------------------------------------------------------------------

\* The threads that call the manager.
Procs == {"ui", "bg"}

\* What the engine makes of a statement: dml says that the sqlite3 module
\* takes it for an INSERT, UPDATE, DELETE or REPLACE, or_fail that it is
\* an INSERT OR FAIL.
Op(kind, table, vals, dml, or_fail) ==
  [kind |-> kind, table |-> table, vals |-> vals, dml |-> dml, or_fail |-> or_fail]

Stmt(kind, table) == Op(kind, table, <<>>, FALSE, FALSE)

\* A query: the text execute is given, and what the storage engine makes
\* of that text.
Q(text, op) == [text |-> text, op |-> op]

NoQuery == Q(<<>>, Stmt("none", ""))

W_CREATE == <<"C","R","E","A","T","E">>
NUL == "\\0"

\* A lone surrogate, a character UTF-8 has no encoding for.
SURROGATE == "\\ud800"

\* The text after the statement's first word is cut down to the table name
\* and the values.
UserQueries ==
  { Q(W_CREATE \o <<SP, "a">>, Stmt("create", "a")),
    Q(W_CREATE \o <<SP, "b">>, Stmt("create", "b")),
    Q(W_INSERT \o <<SP, "a", SP, "1">>, Op("insert", "a", <<1>>, TRUE, FALSE)),
    Q(W_INSERT \o <<SP, "a", SP, "2">>, Op("insert", "a", <<2>>, TRUE, FALSE)),
    \* "\nINSERT OR FAIL INTO a VALUES (1), (2)"
    Q(<<LF>> \o W_INSERT \o <<SP, "o", "r", SP, "a", SP, "1", SP, "2">>,
      Op("insert", "a", <<1, 2>>, TRUE, TRUE)),
    \* "With x(v) AS (VALUES (1), (2)) INSERT OR FAIL INTO a SELECT v FROM x"
    Q(W_With \o <<SP>> \o W_INSERT \o <<SP, "o", "r", SP, "a", SP, "1", SP, "2">>,
      Op("insert", "a", <<1, 2>>, FALSE, TRUE)),
    Q(W_select \o <<SP, "a">>, Stmt("select", "a")),
    Q(W_drop \o <<SP, "a">>, Stmt("drop", "a")),
    \* "/*/ SELECT */drop b"
    Q(BlockComment(<<"/", SP>> \o KW_SELECT \o <<SP>>) \o W_drop \o <<SP, "b">>,
      Stmt("drop", "b")),
    Q(W_x \o <<NUL>>, Stmt("embedded_null", "")),
    Q(W_x \o <<SURROGATE>>, Stmt("unencodable", "")),
    \* "/*/ SELECT */INSERT INTO a VALUES (1)"
    Q(BlockComment(<<"/", SP>> \o KW_SELECT \o <<SP>>) \o W_INSERT \o <<SP, "a", SP, "1">>,
      Op("insert", "a", <<1>>, TRUE, FALSE)),
    Q(W_x, Stmt("garbage", "")) }

\* "SELECT name FROM sqlite_master WHERE type='table' ORDER BY name"
TablesQuery ==
  Q(KW_SELECT \o <<SP, "n", "a", "m", "e">>, Stmt("tables", ""))

PRAGMA_TABLE_INFO ==
  KW_PRAGMA \o <<SP, "t","a","b","l","e","_","i","n","f","o","(">>

\* f"PRAGMA table_info({table_name})", and the engine's reading of it: the
\* schema of the table when the name is a single letter, a syntax error
\* otherwise.
TableInfoQuery(table_name) ==
  Q(PRAGMA_TABLE_INFO \o table_name \o <<")">>,
    IF Len(table_name) = 1 /\ table_name[1] \in Letters
    THEN Stmt("table_info", table_name[1])
    ELSE Stmt("garbage", ""))

\* The names get_table_info is called with.
InfoNames == {<<"a">>, <<"b">>, <<"u">>, <<>>, <<"1">>, <<"a", ";", "b">>, <<"a", "-">>}

\* The connection objects sqlite3.connect can hand out: as many as there
\* are threads, since a call holds at most one.
HandleIds == {"h1", "h2"}

\* A connection that is closed, or was never opened; owner is the thread
\* whose call opened the connection.
ClosedHandle ==
  [open |-> FALSE, path |-> NONE, view |-> EmptyStore, txn |-> FALSE, owner |-> NONE]

NoCursor == [rows |-> <<>>, description |-> NO_DESCRIPTION, rowcount |-> -1]

NoResult == [ok |-> FALSE, value |-> <<>>]

Ok(value) == [ok |-> TRUE, value |-> value]

Err(msg) == [ok |-> FALSE, value |-> msg]

VARIABLES
  db_path,          \* self.db_path
  read_only,        \* the attribute read_only the caller sets on the manager
  self_connection,  \* self._connection
  disk,             \* the store behind each file path, or ABSENT
  handles,          \* the connection objects of sqlite3
  fr,               \* each thread's call frame
  ncalls,           \* the calls made so far
  history           \* what the finished calls have told their callers

db_vars == <<db_path, read_only, self_connection, disk, handles, fr, ncalls, history>>

vars == <<cl_vars, v_vars, db_vars, ext_vars>>

IdleFrame ==
  [pc |-> "idle", op |-> "none", arg |-> <<>>, query |-> NoQuery, is_read |-> FALSE,
   conn |-> NOCONN, cursor |-> NoCursor, exc |-> "", msg |-> "",
   result |-> NoResult, raised |-> "", ret |-> <<>>,
   \* what the call did, for the properties
   path |-> NONE, ro |-> FALSE, disk0 |-> [f \in FilePaths |-> ABSENT],
   opened |-> FALSE, sent |-> <<>>, partial |-> FALSE, commits |-> 0,
   left |-> ABSENT,
   \* a call of transaction(): the statements its body has still to run,
   \* the exception the body raises after them, and what the body raised
   body |-> <<>>, throws |-> "", body_exc |-> "", body_msg |-> "",
   rollbacks |-> 0]

\* What the callers of a store know of it from the values their calls
\* returned: whether every write so far was a successful CREATE TABLE or
\* INSERT (clean), the tables and rows those calls wrote, and what
\* list_tables returned if no write was made since (listed, names).
NoHistory ==
  [clean |-> TRUE, tables |-> {}, rows |-> [t \in Tables |-> {}],
   listed |-> FALSE, names |-> <<>>]

\* The manager variables while another specification runs.
DbOff ==
  /\ db_path = NONE
  /\ read_only = FALSE
  /\ self_connection = NOCONN
  /\ disk = [f \in FilePaths |-> ABSENT]
  /\ handles = [h \in HandleIds |-> ClosedHandle]
  /\ fr = [p \in Procs |-> IdleFrame]
  /\ ncalls = 0
  /\ history = [f \in FilePaths |-> NoHistory]

\* bool(self.db_path) is false
Falsy(path) == path \in {NONE, ""}

\* os.path.exists
Exists(path) == path \in DirPaths \/ (path \in FilePaths /\ disk[path] # ABSENT)

AllIdle == \A p \in Procs : fr[p].pc = "idle"

\* DatabaseManager(): the constructor's default path, no connection.
DbInit ==
  /\ db_path = NONE
  /\ read_only = FALSE
  /\ self_connection = NOCONN
  /\ disk = [f \in FilePaths |-> ABSENT]
  /\ handles = [h \in HandleIds |-> ClosedHandle]
  /\ fr = [p \in Procs |-> IdleFrame]
  /\ ncalls = 0
  /\ history = [f \in FilePaths |-> NoHistory]

\* tempfile.NamedTemporaryFile(delete=False): an empty file, which sqlite3
\* reads as an empty store.
CreateFile(f) ==
  /\ AllIdle
  /\ disk[f] = ABSENT
  /\ disk' = [disk EXCEPT ![f] = EmptyStore]
  /\ history' = [history EXCEPT ![f] = NoHistory]
  /\ UNCHANGED <<db_path, read_only, self_connection, handles, fr, ncalls, cl_vars, v_vars, ext_vars>>

\* os.remove
RemoveFile(f) ==
  /\ AllIdle
  /\ disk[f] # ABSENT
  /\ disk' = [disk EXCEPT ![f] = ABSENT]
  /\ history' = [history EXCEPT ![f] = NoHistory]
  /\ UNCHANGED <<db_path, read_only, self_connection, handles, fr, ncalls, cl_vars, v_vars, ext_vars>>

\* db.read_only = flag
SetReadOnly(p, flag) ==
  /\ fr[p].pc = "idle"
  /\ read_only' = flag
  /\ UNCHANGED <<db_path, self_connection, disk, handles, fr, ncalls, history, cl_vars, v_vars, ext_vars>>

\* set_database making a manager for the new path from scratch, which
\* loses the read_only attribute the caller had set.
set_database_NewManager(p, path) ==
  /\ fr[p].pc = "idle"
  /\ self_connection' = NOCONN
  /\ handles' = IF self_connection # NOCONN
                THEN [handles EXCEPT ![self_connection] = ClosedHandle]
                ELSE handles
  /\ db_path' = path
  /\ read_only' = FALSE
  /\ UNCHANGED <<disk, fr, ncalls, history, cl_vars, v_vars, ext_vars>>

set_database(p, path) ==
  /\ fr[p].pc = "idle"
  /\ self_connection' = NOCONN
  /\ handles' = IF self_connection # NOCONN
                THEN [handles EXCEPT ![self_connection] = ClosedHandle]
                ELSE handles
  /\ db_path' = path
  /\ UNCHANGED <<read_only, disk, fr, ncalls, history, cl_vars, v_vars, ext_vars>>

\* The except clauses of execute with the second one left out.
except_clauses_SqliteOnly == {SQLITE_ERROR}

\* The exception classes the except clauses of execute catch: sqlite3.Error
\* and, after it, every other Exception.
except_clauses == {SQLITE_ERROR, OTHER_ERROR}

\* The frame after an exception has left the try block: both except clauses
\* return (False, str(e)); an exception that none catches leaves execute.
\* transaction() has no handler that keeps an exception from its caller.
Except(f, exc, msg) ==
  IF f.op # "transaction" /\ exc \in except_clauses
  THEN [f EXCEPT !.pc = "ret", !.exc = exc, !.msg = msg, !.result = Err(<<msg>>)]
  ELSE [f EXCEPT !.pc = "ret", !.exc = exc, !.msg = msg, !.raised = exc]

\* execute without its check that the file exists.
BeginExecute_NoExistsCheck(p, op, arg, query) ==
  LET f0 == [IdleFrame EXCEPT !.op = op, !.arg = arg, !.query = query,
                              !.path = db_path,
                              !.ro = read_only, !.disk0 = disk]
  IN fr' = [fr EXCEPT ![p] =
       IF Falsy(db_path)
       THEN [f0 EXCEPT !.pc = "ret", !.result = Err(<<"No database selected">>)]
       ELSE [f0 EXCEPT !.pc = "connect", !.is_read = is_read_query(query.text)]]

\* execute up to the try statement: the two checks on the path and the
\* classification.
BeginExecute(p, op, arg, query) ==
  LET f0 == [IdleFrame EXCEPT !.op = op, !.arg = arg, !.query = query,
                              !.path = db_path,
                              !.ro = read_only, !.disk0 = disk]
  IN fr' = [fr EXCEPT ![p] =
       IF Falsy(db_path)
       THEN [f0 EXCEPT !.pc = "ret", !.result = Err(<<"No database selected">>)]
       ELSE IF ~Exists(db_path)
       THEN [f0 EXCEPT !.pc = "ret",
                       !.result = Err(<<"Database file not found: ", db_path>>)]
       ELSE [f0 EXCEPT !.pc = "connect", !.is_read = is_read_query(query.text)]]

execute(p, query) ==
  /\ fr[p].pc = "idle"
  /\ ncalls < MaxCalls
  /\ ncalls' = ncalls + 1
  /\ BeginExecute(p, "execute", <<>>, query)
  /\ UNCHANGED <<db_path, read_only, self_connection, disk, handles, history, cl_vars, v_vars, ext_vars>>

list_tables(p) ==
  /\ fr[p].pc = "idle"
  /\ ncalls < MaxCalls
  /\ ncalls' = ncalls + 1
  /\ BeginExecute(p, "list_tables", <<>>, TablesQuery)
  /\ UNCHANGED <<db_path, read_only, self_connection, disk, handles, history, cl_vars, v_vars, ext_vars>>

get_table_info(p, table_name) ==
  /\ fr[p].pc = "idle"
  /\ ncalls < MaxCalls
  /\ ncalls' = ncalls + 1
  /\ BeginExecute(p, "get_table_info", table_name, TableInfoQuery(table_name))
  /\ UNCHANGED <<db_path, read_only, self_connection, disk, handles, history, cl_vars, v_vars, ext_vars>>

\* sqlite3.connect handing back a connection that is already open, as a
\* manager that keeps one connection for all its calls would.
NewHandle_Shared ==
  IF \E h \in HandleIds : handles[h].open
  THEN CHOOSE h \in HandleIds : handles[h].open
  ELSE CHOOSE h \in HandleIds : ~handles[h].open

\* conn = sqlite3.connect(...): a new connection object at every call.
NewHandle == CHOOSE h \in HandleIds : ~handles[h].open

\* connection(): the check of the path and sqlite3.connect, which makes
\* the file when there is none and fails on a directory or when the file
\* cannot be opened (io_ok false).  A failure goes to the except clauses
\* of execute.
connection(p, io_ok) ==
  /\ fr[p].pc = "connect"
  /\ IF Falsy(db_path)
     THEN /\ fr' = [fr EXCEPT ![p] = Except(@, OTHER_ERROR, "No database path set")]
          /\ UNCHANGED <<disk, handles>>
     ELSE IF db_path \in DirPaths \/ ~io_ok
     THEN /\ fr' = [fr EXCEPT ![p] =
                       Except(@, SQLITE_ERROR, "unable to open database file")]
          /\ UNCHANGED <<disk, handles>>
     ELSE /\ disk' = IF disk[db_path] = ABSENT
                     THEN [disk EXCEPT ![db_path] = EmptyStore]
                     ELSE disk
          /\ handles' = [handles EXCEPT ![NewHandle] =
               [open |-> TRUE, path |-> db_path, view |-> EmptyStore, txn |-> FALSE,
                owner |-> p]]
          /\ fr' = [fr EXCEPT ![p].pc = IF fr[p].op = "transaction" THEN "body" ELSE "exec",
                               ![p].conn = NewHandle, ![p].opened = TRUE]
  /\ UNCHANGED <<db_path, read_only, self_connection, ncalls, history, cl_vars, v_vars, ext_vars>>

\* Another connection holds the write lock of the file.
Locked(h) ==
  \E o \in HandleIds \ {h} :
    handles[o].open /\ handles[o].path = handles[h].path /\ handles[o].txn

\* The store a connection sees: its open transaction, or the file.
Base(h) == IF handles[h].txn THEN handles[h].view ELSE disk[handles[h].path]

\* What a statement sent over the connection does and returns.
Run(h, op) ==
  IF IsWriteOp(op) /\ Locked(h)
  THEN Failure(Base(h), "database is locked")
  ELSE Apply(Base(h), op)

\* Where the statement's changes go: into the transaction the sqlite3
\* module opens or has open, or into the file.
Store(h, op, r) ==
  IF (OpensTransaction(op) \/ handles[h].txn) /\ ~Locked(h)
  THEN /\ handles' = [handles EXCEPT ![h].txn = TRUE, ![h].view = r.store]
       /\ UNCHANGED disk
  \* autocommit mode: the engine commits what the statement did
  \* when it ends, also the rows a failed INSERT OR FAIL left
  ELSE /\ disk' = [disk EXCEPT ![handles[h].path] = r.store]
       /\ UNCHANGED handles

\* cursor = conn.cursor(); cursor.execute(query, params)
cursor_execute(p) ==
  /\ fr[p].pc = "exec"
  /\ LET h == fr[p].conn
         c == handles[h]
         op == fr[p].query.op
         base == Base(h)
         r == Run(h, op)
     IN /\ Store(h, op, r)
        /\ fr' = [fr EXCEPT
             ![p].sent = Append(@, fr[p].query.text),
             ![p].partial = ~r.ok /\ r.store # base,
             ![p].left = r.store,
             ![p].pc = IF r.ok THEN "finish" ELSE "close",
             ![p].cursor = [rows |-> r.rows, description |-> r.description,
                            rowcount |-> r.rowcount],
             ![p].exc = r.exc,
             ![p].msg = r.msg]
  /\ UNCHANGED <<db_path, read_only, self_connection, ncalls, history, cl_vars, v_vars, ext_vars>>

\* conn.commit()
Commit(h) ==
  IF handles[h].txn
  THEN /\ disk' = [disk EXCEPT ![handles[h].path] = handles[h].view]
       /\ handles' = [handles EXCEPT ![h].txn = FALSE]
  ELSE UNCHANGED <<disk, handles>>

\* The result dictionary with the number of columns as its count.
ReadResult_CountsColumns(cur) ==
  LET columns == IF cur.description # NO_DESCRIPTION THEN cur.description ELSE <<>>
  IN [columns |-> columns, rows |-> cur.rows, count |-> Len(columns)]

\* The result dictionary of a read query: the names of cursor.description
\* or [], the rows of cursor.fetchall() as tuples, and len(rows).
ReadResult(cur) ==
  LET columns == IF cur.description # NO_DESCRIPTION THEN cur.description ELSE <<>>
  IN [columns |-> columns, rows |-> cur.rows, count |-> Len(cur.rows)]

\* The branches after cursor.execute chosen by what the statement is, not
\* by the classification of its text.
finish_ShapeByStatement(p) ==
  /\ fr[p].pc = "finish"
  /\ LET cur == fr[p].cursor
     IN IF ~IsWriteOp(fr[p].query.op)
        THEN /\ fr' = [fr EXCEPT
                  ![p].pc = "close",
                  ![p].result = Ok(ReadResult(cur))]
             /\ UNCHANGED <<disk, handles>>
        ELSE /\ Commit(fr[p].conn)
             /\ fr' = [fr EXCEPT
                  ![p].pc = "close",
                  ![p].commits = @ + 1,
                  ![p].result = Ok([affected |-> cur.rowcount])]
  /\ UNCHANGED <<db_path, read_only, self_connection, ncalls, history, cl_vars, v_vars, ext_vars>>

\* The branches after cursor.execute with a commit in the read branch too.
finish_CommitAlways(p) ==
  /\ fr[p].pc = "finish"
  /\ LET cur == fr[p].cursor
     IN /\ Commit(fr[p].conn)
        /\ fr' = [fr EXCEPT
             ![p].pc = "close",
             ![p].commits = @ + 1,
             ![p].result = IF fr[p].is_read THEN Ok(ReadResult(cur))
                           ELSE Ok([affected |-> cur.rowcount])]
  /\ UNCHANGED <<db_path, read_only, self_connection, ncalls, history, cl_vars, v_vars, ext_vars>>

\* The two branches after cursor.execute: fetch and shape the rows of a
\* read query, commit a write query and report the affected rows.
finish(p) ==
  /\ fr[p].pc = "finish"
  /\ LET cur == fr[p].cursor
     IN IF fr[p].is_read
        THEN /\ fr' = [fr EXCEPT
                  ![p].pc = "close",
                  ![p].result = Ok(ReadResult(cur))]
             /\ UNCHANGED <<disk, handles>>
        ELSE /\ Commit(fr[p].conn)
             /\ fr' = [fr EXCEPT
                  ![p].pc = "close",
                  ![p].commits = @ + 1,
                  ![p].result = Ok([affected |-> cur.rowcount])]
  /\ UNCHANGED <<db_path, read_only, self_connection, ncalls, history, cl_vars, v_vars, ext_vars>>

\* conn.close(): what the connection has not committed is lost.
Close(h) ==
  /\ handles' = [handles EXCEPT ![h] = ClosedHandle]
  /\ UNCHANGED disk

\* The exit of connection() without its finally clause: the handle is
\* closed only when the body raised nothing.
ConnectionExit_NoFinally(p) ==
  IF fr[p].exc = "" THEN Close(fr[p].conn) ELSE UNCHANGED <<handles, disk>>

\* The exit of connection(): finally: conn.close()
ConnectionExit(p) == Close(fr[p].conn)

\* The finally clause of connection(), then the return statement or the
\* except clause the exception reaches.
close_connection(p) ==
  /\ fr[p].pc = "close"
  /\ ConnectionExit(p)
  /\ fr' = [fr EXCEPT ![p] =
       IF fr[p].exc # ""
       THEN Except([@ EXCEPT !.conn = NOCONN], fr[p].exc, fr[p].msg)
       ELSE [@ EXCEPT !.pc = "ret", !.conn = NOCONN]]
  /\ UNCHANGED <<db_path, read_only, self_connection, ncalls, history, cl_vars, v_vars, ext_vars>>

\* [row[0] for row in result['rows']]
TableNames(rows) == [i \in DOMAIN rows |-> rows[i][1]]

\* The column dictionaries get_table_info builds from the rows.
ColumnInfos(rows) ==
  [i \in DOMAIN rows |->
     [name |-> rows[i][2], type |-> rows[i][3],
      nullable |-> rows[i][4] = 0, primary_key |-> rows[i][6] # 0]]

\* The value the public operation returns to its caller.
ReturnValue(f) ==
  CASE f.op = "list_tables" ->
         IF f.result.ok THEN TableNames(f.result.value.rows) ELSE <<>>
    [] f.op = "get_table_info" ->
         IF f.result.ok THEN ColumnInfos(f.result.value.rows) ELSE <<>>
    [] OTHER -> f.result

\* What the caller of a finished call adds to what it knows of the store.
Remember(h, f) ==
  LET op == f.query.op
  IN CASE f.op = "list_tables" /\ f.result.ok ->
            [h EXCEPT !.listed = TRUE, !.names = ReturnValue(f)]
       [] f.op = "execute" /\ f.result.ok /\ op.kind = "create" ->
            [h EXCEPT !.tables = @ \cup {op.table}, !.listed = FALSE]
       [] f.op = "execute" /\ f.result.ok /\ op.kind = "insert" ->
            [h EXCEPT !.rows[op.table] = @ \cup Range(op.vals), !.listed = FALSE]
       [] f.op = "transaction" -> [h EXCEPT !.clean = FALSE, !.listed = FALSE]
       [] f.sent = <<>> \/ ~IsWriteOp(op) -> h
       [] OTHER -> [h EXCEPT !.clean = FALSE, !.listed = FALSE]

\* The call is over: the frame is gone, the caller has the value.
return(p) ==
  /\ fr[p].pc = "ret"
  /\ fr' = [fr EXCEPT ![p] = [IdleFrame EXCEPT !.ret = ReturnValue(fr[p])]]
  /\ history' = IF fr[p].path \in FilePaths
                THEN [history EXCEPT ![fr[p].path] = Remember(@, fr[p])]
                ELSE history
  /\ UNCHANGED <<db_path, read_only, self_connection, disk, handles, ncalls, cl_vars, v_vars, ext_vars>>

\* The thread of the user interface, which makes every call of the
\* application.
Callers == {"ui"}

DbNext ==
  \/ \E f \in FilePaths : CreateFile(f)
  \/ \E f \in FilePaths : RemoveFile(f)
  \/ \E p \in Callers, flag \in BOOLEAN : SetReadOnly(p, flag)
  \/ \E p \in Callers, path \in PathValues : set_database(p, path)
  \/ \E p \in Callers, q \in UserQueries : execute(p, q)
  \/ \E p \in Callers : list_tables(p)
  \/ \E p \in Callers, n \in InfoNames : get_table_info(p, n)
  \/ \E p \in Callers, io_ok \in BOOLEAN : connection(p, io_ok)
  \/ \E p \in Callers : cursor_execute(p)
  \/ \E p \in Callers : finish(p)
  \/ \E p \in Callers : close_connection(p)
  \/ \E p \in Callers : return(p)

\* ------------------------------------------------------------------------
\* The identifier validator: ^[A-Za-z_][A-Za-z0-9_]*$, matched from the
\* first character on.
\* ------------------------------------------------------------------------

\* [A-Za-z0-9_]* up to the end of the text
RECURSIVE MatchTail(_)
MatchTail(s) ==
  IF s = <<>> THEN TRUE
  ELSE Head(s) \in Letters \cup Digits \cup {"_"} /\ MatchTail(Tail(s))

\* The validator with the first character matched like the others.
validate_table_name_AnyFirst(name) == name # <<>> /\ MatchTail(name)

validate_table_name(name) ==
  /\ name # <<>>
  /\ Head(name) \in Letters \cup {"_"}
  /\ MatchTail(Tail(name))

NameChars == {"u", "T", "_", "1", ";", "-"}

Names == UNION {[1..n -> NameChars] : n \in 0..MaxName}

\* The classifier variables while another specification runs.
ClassifyOff ==
  /\ cl_prefix = <<>>
  /\ cl_query = <<>>
  /\ cl_pc = "off"
  /\ cl_plain = FALSE
  /\ cl_prefixed = FALSE

\* The validator variables while another specification runs.
ValidateOff ==
  /\ v_name = <<>>
  /\ v_pc = "off"
  /\ v_result = FALSE

\* None, as the value find_available_port returns.
NO_PORT == 0 - 1

\* The port variables while another specification runs.
PortsOff ==
  /\ fp_start = 0
  /\ fp_attempts = 0
  /\ fp_listening = {}
  /\ fp_i = 0
  /\ fp_pc = "off"
  /\ fp_result = NO_PORT

\* The configuration variables while another specification runs.
ConfigOff ==
  /\ cfg_data = <<>>
  /\ cfg_file = <<>>
  /\ cfg_pc = "off"
  /\ cfg_last = <<>>
  /\ cfg_saved = TRUE
  /\ cfg_sets = 0

\* The largest number of php processes spawned in a run.
MaxSpawns == 2

\* The php processes, and with each the thread started for it.
Pids == 1..MaxSpawns

\* A line of a child's output; NoLine when a thread holds none.
NoLine == [child |-> 0, n |-> 0]

\* A child that is not spawned yet; pipe is the number of lines it has
\* written that nobody has read.
NoChild == [state |-> "unborn", port |-> 0, root |-> "", emitted |-> 0, pipe |-> 0]

\* A thread that is not started yet; stream is the child whose stdout the
\* thread has taken from self.process for its read.
NoThread == [pc |-> "unborn", stream |-> 0, line |-> NoLine]

\* The fields of the server a call can change.
Fields ==
  [process |-> srv_process, is_running |-> srv_is_running, port |-> srv_port,
   document_root |-> srv_document_root]

NoFields == [process |-> 0, is_running |-> FALSE, port |-> 0, document_root |-> ""]

\* No call is under way; ret keeps what the last call returned.
IdleCall ==
  [pc |-> "idle", op |-> "none", document_root |-> "", port |-> 0, ret |-> "",
   before |-> NoFields, spawned |-> 0, spawned_before |-> 0, in_restart |-> FALSE]

\* The server variables while another specification runs.
ServerOff ==
  /\ srv_process = 0
  /\ srv_is_running = FALSE
  /\ srv_port = 0
  /\ srv_document_root = ""
  /\ srv_stop_logging = FALSE
  /\ srv_log_thread = 0
  /\ srv_children = [c \in Pids |-> NoChild]
  /\ srv_threads = [t \in Pids |-> NoThread]
  /\ srv_call = IdleCall
  /\ srv_delivered = {}
  /\ srv_calls = 0

\* The variables of the server and configuration modules while another
\* specification runs.
ExtOff == PortsOff /\ ConfigOff /\ ServerOff

\* ------------------------------------------------------------------------
\* find_available_port (server.py)
\* ------------------------------------------------------------------------

\* The largest port number (65535, scaled down).
MaxPort == 4

\* The largest max_attempts a call is made with.
MaxAttempts == 3

\* s.connect_ex(('localhost', port)) == 0: something accepts connections
\* on the port.
is_port_in_use(port) == port \in fp_listening

\* The loop with its ports taken from one after start_port.
Candidate_FromNext(start_port, i) == start_port + i + 1

\* port = start_port + i
Candidate(start_port, i) == start_port + i

\* A call find_available_port(start_port, max_attempts), with any set of
\* ports in use.
PortsInit ==
  /\ fp_start \in 0..(MaxPort + 1)
  /\ fp_attempts \in 0..MaxAttempts
  /\ fp_listening \in SUBSET (0..MaxPort)
  /\ fp_i = 0
  /\ fp_pc = "loop"
  /\ fp_result = NO_PORT
  /\ ClassifyOff
  /\ ValidateOff
  /\ DbOff
  /\ ConfigOff
  /\ ServerOff

\* One turn of the for loop, or its end: socket refuses a number that is
\* no port with OverflowError, which nothing catches.
find_available_port ==
  /\ fp_pc = "loop"
  /\ IF fp_i >= fp_attempts
     THEN /\ fp_pc' = "done"
          /\ fp_result' = NO_PORT
          /\ UNCHANGED fp_i
     ELSE LET port == Candidate(fp_start, fp_i)
          IN IF port > MaxPort
             THEN /\ fp_pc' = "raised"
                  /\ UNCHANGED <<fp_i, fp_result>>
             ELSE IF ~is_port_in_use(port)
             THEN /\ fp_pc' = "done"
                  /\ fp_result' = port
                  /\ UNCHANGED fp_i
             ELSE /\ fp_i' = fp_i + 1
                  /\ UNCHANGED <<fp_pc, fp_result>>
  /\ UNCHANGED <<fp_start, fp_attempts, fp_listening, cl_vars, v_vars, db_vars, cfg_vars, srv_vars>>

PortsNext == find_available_port

SpecPorts == PortsInit /\ [][PortsNext]_vars

\* ------------------------------------------------------------------------
\* Config (config.py): the preferences kept in config.json
\* ------------------------------------------------------------------------

\* The number of set calls in a run.
MaxSets == 3

\* The values of the configuration: strings and integers, as in
\* DEFAULT_CONFIG.
CfgStr(chars) == [t |-> "str", s |-> chars, n |-> 0]
CfgInt(n) == [t |-> "int", s |-> <<>>, n |-> n]

\* None, which get returns for a key the dictionary does not hold.
CfgNone == [t |-> "None", s |-> <<>>, n |-> 0]

\* What stands in a dictionary for a key it does not hold.
MISSING == [t |-> "missing", s |-> <<>>, n |-> 0]

CfgKeys == {"last_project", "port", "window_geometry", "custom_key"}

DEFAULT_CONFIG ==
  [k \in CfgKeys |->
     CASE k = "last_project" -> CfgStr(<<>>)
       [] k = "port" -> CfgInt(8000)
       [] k = "window_geometry" -> CfgStr(<<"7", "0", "0", "x", "6", "0", "0">>)
       [] OTHER -> MISSING]

QUOTE == "\""
BACKSLASH == "\\"

DigitChars == <<"0", "1", "2", "3", "4", "5", "6", "7", "8", "9">>

\* The decimal digits json.dump writes for an integer.
RECURSIVE Decimal(_)
Decimal(n) ==
  IF n < 0 THEN <<"-">> \o Decimal(0 - n)
  ELSE IF n < 10 THEN <<DigitChars[n + 1]>>
  ELSE Decimal(n \div 10) \o <<DigitChars[(n % 10) + 1]>>

\* The characters json.dump writes for one character of a string, with
\* ensure_ascii=False.
EscapeChar(c) ==
  CASE c = QUOTE -> <<BACKSLASH, QUOTE>>
    [] c = BACKSLASH -> <<BACKSLASH, BACKSLASH>>
    [] c = LF -> <<BACKSLASH, "n">>
    [] OTHER -> <<c>>

RECURSIVE Escape(_)
Escape(chars) ==
  IF chars = <<>> THEN <<>> ELSE EscapeChar(Head(chars)) \o Escape(Tail(chars))

\* json.dump of one value.
JsonEncode(v) ==
  IF v.t = "int" THEN Decimal(v.n) ELSE <<QUOTE>> \o Escape(v.s) \o <<QUOTE>>

\* The character an escape sequence stands for.
Unescaped(c) == IF c = "n" THEN LF ELSE c

\* The characters of a JSON string between its quotes.
RECURSIVE Unescape(_)
Unescape(text) ==
  IF text = <<>> THEN <<>>
  ELSE IF Head(text) = BACKSLASH /\ Len(text) >= 2
       THEN <<Unescaped(text[2])>> \o Unescape(Drop(text, 2))
  ELSE <<Head(text)>> \o Unescape(Tail(text))

DigitValue(c) == (CHOOSE i \in DOMAIN DigitChars : DigitChars[i] = c) - 1

\* The number a run of decimal digits stands for.
RECURSIVE ParseDigits(_, _)
ParseDigits(text, acc) ==
  IF text = <<>> THEN acc
  ELSE ParseDigits(Tail(text), acc * 10 + DigitValue(Head(text)))

\* json.load of one value.
JsonDecode(text) ==
  IF Head(text) = QUOTE THEN CfgStr(Unescape(SubSeq(text, 2, Len(text) - 1)))
  ELSE IF Head(text) = "-" THEN CfgInt(0 - ParseDigits(Tail(text), 0))
  ELSE CfgInt(ParseDigits(text, 0))

\* No config.json in the directory.  Of a file that exists, utf8 says that
\* its bytes are UTF-8 text, valid that the text is JSON, and object that
\* the JSON value is an object.
NoFile ==
  [exists |-> FALSE, utf8 |-> FALSE, valid |-> FALSE, object |-> FALSE,
   obj |-> [k \in CfgKeys |-> <<>>]]

\* A config.json cut short by a write that failed.
BrokenFile ==
  [exists |-> TRUE, utf8 |-> TRUE, valid |-> FALSE, object |-> FALSE,
   obj |-> [k \in CfgKeys |-> <<>>]]

\* A config.json that holds a JSON value which is no object: [], null, 5.
ArrayFile ==
  [exists |-> TRUE, utf8 |-> TRUE, valid |-> TRUE, object |-> FALSE,
   obj |-> [k \in CfgKeys |-> <<>>]]

\* A config.json whose bytes are no UTF-8 text.
BytesFile ==
  [exists |-> TRUE, utf8 |-> FALSE, valid |-> FALSE, object |-> FALSE,
   obj |-> [k \in CfgKeys |-> <<>>]]

\* json.dump(self._data, f): the JSON object, as the text of the value of
\* each key it has.
Dumped(data) ==
  [exists |-> TRUE, utf8 |-> TRUE, valid |-> TRUE, object |-> TRUE,
   obj |-> [k \in CfgKeys |-> IF data[k] = MISSING THEN <<>> ELSE JsonEncode(data[k])]]

\* json.load(f): the dictionary of a JSON object.
Loaded(file) ==
  [k \in CfgKeys |-> IF file.obj[k] = <<>> THEN MISSING ELSE JsonDecode(file.obj[k])]

\* The merge with the defaults written last, so that they replace what
\* was loaded.
Merge_DefaultsLast(defaults, loaded) ==
  [k \in CfgKeys |-> IF defaults[k] # MISSING THEN defaults[k] ELSE loaded[k]]

\* {**self.DEFAULT_CONFIG, **loaded}
Merge(defaults, loaded) ==
  [k \in CfgKeys |-> IF loaded[k] # MISSING THEN loaded[k] ELSE defaults[k]]

\* load(), called on a new object whose _data is a copy of the defaults.
load(file) ==
  IF ~file.exists THEN DEFAULT_CONFIG
  ELSE IF ~file.valid THEN DEFAULT_CONFIG
  ELSE Merge(DEFAULT_CONFIG, Loaded(file))

\* The exception that leaves load, "" for none: the except clause names
\* json.JSONDecodeError and OSError only, so the UnicodeDecodeError of
\* f.read() and the TypeError of {**defaults, **loaded} on a value that is
\* no mapping pass it.
LoadRaises(file) ==
  IF ~file.exists THEN ""
  ELSE IF ~file.utf8 THEN "UnicodeDecodeError"
  ELSE IF ~file.valid THEN ""
  ELSE IF ~file.object THEN "TypeError"
  ELSE ""

\* get(key): None for a key the dictionary does not hold.
get(key) == IF cfg_data[key] = MISSING THEN CfgNone ELSE cfg_data[key]

\* The values given to set and to the property setters.
CfgValues ==
  { CfgStr(<<>>), CfgStr(<<"9">>), CfgStr(<<QUOTE, BACKSLASH, "n">>),
    CfgInt(9), CfgInt(9000) }

\* What a save does: it writes the file, fails to open it (OSError, the
\* file stays as it is), or fails while writing (the file is cut short).
SaveOutcomes == {"saved", "open failed", "write failed"}

\* save()
save(data, outcome) ==
  CASE outcome = "saved" -> Dumped(data)
    [] outcome = "open failed" -> cfg_file
    [] OTHER -> BrokenFile

\* Config(config_dir) on an empty directory.
ConfigInit ==
  /\ cfg_data = DEFAULT_CONFIG
  /\ cfg_file = NoFile
  /\ cfg_pc = "loaded"
  /\ cfg_last = [k \in CfgKeys |-> MISSING]
  /\ cfg_saved = TRUE
  /\ cfg_sets = 0
  /\ ClassifyOff
  /\ ValidateOff
  /\ DbOff
  /\ PortsOff
  /\ ServerOff

\* Config(config_dir): a new object on the directory; an exception of load
\* leaves the constructor, and no object is made.
Config ==
  /\ cfg_pc \in {"new", "set"}
  /\ IF LoadRaises(cfg_file) = ""
     THEN cfg_data' = load(cfg_file) /\ cfg_pc' = "loaded"
     ELSE cfg_data' = DEFAULT_CONFIG /\ cfg_pc' = "raised"
  /\ UNCHANGED <<cfg_file, cfg_last, cfg_saved, cfg_sets, cl_vars, v_vars, db_vars, fp_vars, srv_vars>>

\* set(key, value): self._data[key] = value; self.save()
set(key, value, outcome) ==
  /\ cfg_pc \in {"loaded", "set"}
  /\ cfg_sets < MaxSets
  /\ cfg_sets' = cfg_sets + 1
  /\ cfg_data' = [cfg_data EXCEPT ![key] = value]
  /\ cfg_file' = save(cfg_data', outcome)
  /\ cfg_last' = [cfg_last EXCEPT ![key] = value]
  /\ cfg_saved' = (cfg_saved /\ outcome = "saved")
  /\ cfg_pc' = "set"
  /\ UNCHANGED <<cl_vars, v_vars, db_vars, fp_vars, srv_vars>>

\* config.last_project = value
last_project(value, outcome) == set("last_project", value, outcome)

\* config.port = value
port(value, outcome) == set("port", value, outcome)

ConfigNext ==
  \/ Config
  \/ \E k \in {"window_geometry", "custom_key"}, v \in CfgValues, o \in SaveOutcomes :
       set(k, v, o)
  \/ \E v \in CfgValues, o \in SaveOutcomes : last_project(v, o)
  \/ \E v \in CfgValues, o \in SaveOutcomes : port(v, o)

SpecConfig == ConfigInit /\ [][ConfigNext]_vars

\* The JSON objects found in config.json: for each key, no entry or the
\* text of a value.
FoundObjects ==
  { [exists |-> TRUE, utf8 |-> TRUE, valid |-> TRUE, object |-> TRUE, obj |-> o] :
      o \in [CfgKeys -> {<<>>, JsonEncode(CfgStr(<<"9">>)), JsonEncode(CfgInt(9000))}] }

\* What a program may find in place of config.json.
FoundFiles == {NoFile, BrokenFile, ArrayFile, BytesFile} \cup FoundObjects

\* A directory with any of these files, and no Config object yet.
ConfigLoadInit ==
  /\ cfg_file \in FoundFiles
  /\ cfg_data = [k \in CfgKeys |-> MISSING]
  /\ cfg_pc = "new"
  /\ cfg_last = [k \in CfgKeys |-> MISSING]
  /\ cfg_saved = TRUE
  /\ cfg_sets = 0
  /\ ClassifyOff
  /\ ValidateOff
  /\ DbOff
  /\ PortsOff
  /\ ServerOff

\* The constructor, and then the setter of the port.
ConfigLoadNext ==
  \/ Config
  \/ \E v \in {CfgInt(9), CfgInt(9000)}, o \in SaveOutcomes : port(v, o)

SpecConfigLoad == ConfigLoadInit /\ [][ConfigLoadNext]_vars

ClassifyInit ==
  /\ \E n \in 0..MaxPieces : \E m \in 0..(MaxPieces - n) :
       /\ cl_prefix \in TextsOf(PrefixPieces, n)
       /\ cl_query \in TextsOf(QueryPieces, m)
  /\ cl_pc = "input"
  /\ cl_plain = FALSE
  /\ cl_prefixed = FALSE
  /\ ValidateOff
  /\ DbOff
  /\ ExtOff

Classify ==
  /\ cl_pc = "input"
  /\ cl_plain' = is_read_query(cl_query)
  /\ cl_prefixed' = is_read_query(cl_prefix \o cl_query)
  /\ cl_pc' = "done"
  /\ UNCHANGED <<cl_prefix, cl_query, v_vars, db_vars, ext_vars>>

ClassifyNext == Classify

SpecClassify == ClassifyInit /\ [][ClassifyNext]_vars

ValidateInit ==
  /\ v_name \in Names
  /\ v_pc = "input"
  /\ v_result = FALSE
  /\ ClassifyOff
  /\ DbOff
  /\ ExtOff

Validate ==
  /\ v_pc = "input"
  /\ v_result' = validate_table_name(v_name)
  /\ v_pc' = "done"
  /\ UNCHANGED <<v_name, cl_vars, db_vars, ext_vars>>

ValidateNext == Validate

SpecValidate == ValidateInit /\ [][ValidateNext]_vars

Init == DbInit /\ ClassifyOff /\ ValidateOff /\ ExtOff

Next == DbNext

Spec == Init /\ [][Next]_vars

\* ------------------------------------------------------------------------
\* Two threads calling execute on one manager and one store
\* ------------------------------------------------------------------------

\* The queries of the concurrent calls: DDL, INSERTs that open a
\* transaction, a read and a statement the engine rejects.
ConcurrentQueries ==
  { Q(W_CREATE \o <<SP, "a">>, Stmt("create", "a")),
    Q(W_INSERT \o <<SP, "a", SP, "1">>, Op("insert", "a", <<1>>, TRUE, FALSE)),
    Q(W_INSERT \o <<SP, "a", SP, "2">>, Op("insert", "a", <<2>>, TRUE, FALSE)),
    Q(W_select \o <<SP, "a">>, Stmt("select", "a")),
    Q(W_x, Stmt("garbage", "")) }

\* DatabaseManager("a.sqlite") on an existing, empty store file.
ConcurrentInit ==
  /\ db_path = "a.sqlite"
  /\ read_only = FALSE
  /\ self_connection = NOCONN
  /\ disk = [f \in FilePaths |-> IF f = "a.sqlite" THEN EmptyStore ELSE ABSENT]
  /\ handles = [h \in HandleIds |-> ClosedHandle]
  /\ fr = [p \in Procs |-> IdleFrame]
  /\ ncalls = 0
  /\ history = [f \in FilePaths |-> NoHistory]
  /\ ClassifyOff
  /\ ValidateOff
  /\ ExtOff

\* The steps of the calls of both threads, in any interleaving.
ConcurrentNext ==
  \/ \E p \in Procs, q \in ConcurrentQueries : execute(p, q)
  \/ \E p \in Procs, io_ok \in BOOLEAN : connection(p, io_ok)
  \/ \E p \in Procs : cursor_execute(p)
  \/ \E p \in Procs : finish(p)
  \/ \E p \in Procs : close_connection(p)
  \/ \E p \in Procs : return(p)

SpecConcurrent == ConcurrentInit /\ [][ConcurrentNext]_vars

\* ------------------------------------------------------------------------
\* transaction(): a caller running statements in a with block
\* ------------------------------------------------------------------------

\* The largest number of statements in the body of a with block.
MaxStatements == 2

\* The statements a body sends over the connection it is handed.
BodyStatements ==
  { Q(W_CREATE \o <<SP, "b">>, Stmt("create", "b")),
    Q(W_INSERT \o <<SP, "a", SP, "1">>, Op("insert", "a", <<1>>, TRUE, FALSE)),
    Q(W_INSERT \o <<SP, "a", SP, "2">>, Op("insert", "a", <<2>>, TRUE, FALSE)),
    Q(W_select \o <<SP, "a">>, Stmt("select", "a")),
    Q(W_x, Stmt("garbage", "")) }

\* The bodies: some statements, and then either the end of the block or an
\* exception of the caller's own code.
Bodies ==
  { [stmts |-> st, throws |-> t] :
      st \in UNION {[1..n -> BodyStatements] : n \in 0..MaxStatements},
      t \in {"", OTHER_ERROR} }

\* The handler of transaction() catching sqlite3.Error only.
transaction_except_SqliteOnly == {SQLITE_ERROR}

\* except Exception as e: every exception a statement or the caller's code
\* raises.
transaction_except == {SQLITE_ERROR, OTHER_ERROR}

\* with db.transaction() as conn: the call enters connection().
transaction(p, b) ==
  /\ fr[p].pc = "idle"
  /\ ncalls < MaxCalls
  /\ ncalls' = ncalls + 1
  /\ fr' = [fr EXCEPT ![p] =
       [IdleFrame EXCEPT !.op = "transaction", !.pc = "connect",
                         !.body = b.stmts, !.throws = b.throws,
                         !.path = db_path, !.ro = read_only, !.disk0 = disk]]
  /\ UNCHANGED <<db_path, read_only, self_connection, disk, handles, history, cl_vars, v_vars, ext_vars>>

\* The body at the yield: conn.execute(statement) for its next statement.
\* A statement that fails raises into the generator.
body_execute(p) ==
  /\ fr[p].pc = "body"
  /\ fr[p].body # <<>>
  /\ LET h == fr[p].conn
         q == Head(fr[p].body)
         r == Run(h, q.op)
     IN /\ Store(h, q.op, r)
        /\ fr' = [fr EXCEPT
             ![p].sent = Append(@, q.text),
             ![p].body = Tail(@),
             ![p].left = r.store,
             ![p].exc = r.exc,
             ![p].msg = r.msg,
             ![p].body_exc = r.exc,
             ![p].body_msg = r.msg,
             ![p].pc = IF r.ok THEN "body" ELSE "except"]
  /\ UNCHANGED <<db_path, read_only, self_connection, ncalls, history, cl_vars, v_vars, ext_vars>>

\* The body raises an exception of its own after its statements.
body_raise(p) ==
  /\ fr[p].pc = "body"
  /\ fr[p].body = <<>>
  /\ fr[p].throws # ""
  /\ fr' = [fr EXCEPT
       ![p].exc = fr[p].throws,
       ![p].msg = "raised by the body",
       ![p].body_exc = fr[p].throws,
       ![p].body_msg = "raised by the body",
       ![p].pc = "except"]
  /\ UNCHANGED <<db_path, read_only, self_connection, disk, handles, ncalls, history, cl_vars, v_vars, ext_vars>>

\* The body is over: conn.commit()
transaction_commit(p) ==
  /\ fr[p].pc = "body"
  /\ fr[p].body = <<>>
  /\ fr[p].throws = ""
  /\ Commit(fr[p].conn)
  /\ fr' = [fr EXCEPT ![p].commits = @ + 1, ![p].pc = "close"]
  /\ UNCHANGED <<db_path, read_only, self_connection, ncalls, history, cl_vars, v_vars, ext_vars>>

\* conn.rollback(): the open transaction is given up.
Rollback(h) ==
  /\ handles' = [handles EXCEPT ![h].txn = FALSE, ![h].view = EmptyStore]
  /\ UNCHANGED disk

\* except Exception as e: conn.rollback(); raise.  An exception the clause
\* does not catch goes on to the finally clause of connection().
transaction_rollback(p) ==
  /\ fr[p].pc = "except"
  /\ IF fr[p].exc \in transaction_except
     THEN /\ Rollback(fr[p].conn)
          /\ fr' = [fr EXCEPT ![p].rollbacks = @ + 1, ![p].pc = "close"]
     ELSE /\ fr' = [fr EXCEPT ![p].pc = "close"]
          /\ UNCHANGED <<disk, handles>>
  /\ UNCHANGED <<db_path, read_only, self_connection, ncalls, history, cl_vars, v_vars, ext_vars>>

\* DatabaseManager("a.sqlite") on a store file that holds the table a.
TransactionInit ==
  /\ db_path = "a.sqlite"
  /\ read_only = FALSE
  /\ self_connection = NOCONN
  /\ disk = [f \in FilePaths |->
              IF f = "a.sqlite" THEN [EmptyStore EXCEPT !.order = <<"a">>] ELSE ABSENT]
  /\ handles = [h \in HandleIds |-> ClosedHandle]
  /\ fr = [p \in Procs |-> IdleFrame]
  /\ ncalls = 0
  /\ history = [f \in FilePaths |-> NoHistory]
  /\ ClassifyOff
  /\ ValidateOff
  /\ ExtOff

TransactionNext ==
  \/ \E p \in Callers, path \in PathValues : set_database(p, path)
  \/ \E p \in Callers, b \in Bodies : transaction(p, b)
  \/ \E p \in Callers, io_ok \in BOOLEAN : connection(p, io_ok)
  \/ \E p \in Callers : body_execute(p)
  \/ \E p \in Callers : body_raise(p)
  \/ \E p \in Callers : transaction_commit(p)
  \/ \E p \in Callers : transaction_rollback(p)
  \/ \E p \in Callers : close_connection(p)
  \/ \E p \in Callers : return(p)

SpecTransaction == TransactionInit /\ [][TransactionNext]_vars

\* ------------------------------------------------------------------------
\* PHPServer (server.py): the caller's start, stop and restart, the php
\* child processes and the log-capture threads
\* ------------------------------------------------------------------------

\* The largest number of calls of start, stop and restart in a run.
MaxServerCalls == 3

\* The largest number of lines a php process writes.
MaxLines == 1

\* The document roots and ports start is called with; the ports are far
\* below 65535.
Roots == {"www", "www/public"}
StartPorts == {8000, 8001}

\* The ports other programs listen on: none, the default port, or the
\* default port and the ten after it.
ListeningSets == {{}, {8000}, 8000..8010}

\* The variables of the other modules.
srv_others == <<cl_vars, v_vars, db_vars, fp_vars, cfg_vars>>

\* The number of php processes spawned so far.
Spawned == Cardinality({c \in Pids : srv_children[c].state # "unborn"})

\* find_available_port(start_port, max_attempts) from its i-th turn on:
\* the first candidate nothing listens on, or None.
RECURSIVE FindFrom(_, _, _)
FindFrom(start_port, i, max_attempts) ==
  IF i >= max_attempts THEN NO_PORT
  ELSE IF ~is_port_in_use(Candidate(start_port, i)) THEN Candidate(start_port, i)
  ELSE FindFrom(start_port, i + 1, max_attempts)

\* start with its first check left out.
AlreadyRunning_Never == FALSE

\* if self.is_running:
AlreadyRunning == srv_is_running

\* start up to the try statement: the check of is_running, the search for
\* a free port, and the assignment of port and document_root.
StartEntry(op, document_root, port_arg) ==
  LET f0 == [IdleCall EXCEPT !.op = op, !.document_root = document_root,
                             !.port = port_arg, !.before = Fields,
                             !.spawned_before = Spawned,
                             !.in_restart = (op = "restart")]
      new_port == IF is_port_in_use(port_arg) THEN FindFrom(port_arg, 0, 10) ELSE port_arg
  IN IF AlreadyRunning \/ new_port = NO_PORT
     THEN /\ srv_call' = [f0 EXCEPT !.pc = "ret", !.ret = "False"]
          /\ UNCHANGED <<srv_port, srv_document_root>>
     ELSE /\ srv_call' = [f0 EXCEPT !.pc = "spawn", !.port = new_port]
          /\ srv_port' = new_port
          /\ srv_document_root' = document_root

\* server.start(document_root, port)
start(document_root, port_arg) ==
  /\ srv_call.pc = "idle"
  /\ srv_calls < MaxServerCalls
  /\ Spawned < MaxSpawns
  /\ srv_calls' = srv_calls + 1
  /\ StartEntry("start", document_root, port_arg)
  /\ UNCHANGED <<srv_process, srv_is_running, srv_stop_logging, srv_log_thread,
                 srv_children, srv_threads, srv_delivered, srv_others>>

\* What subprocess.Popen does: it spawns php, or raises FileNotFoundError
\* (no php on the PATH) or another exception.
SpawnOutcomes == {"spawned", "FileNotFoundError", "Exception"}

\* self.process = subprocess.Popen(cmd, ...), and the except clauses the
\* exception of a failed spawn reaches: return False.
Popen(outcome) ==
  /\ srv_call.pc = "spawn"
  /\ IF outcome = "spawned"
     THEN LET c == Spawned + 1
          IN /\ srv_children' = [srv_children EXCEPT ![c] =
                    [state |-> "running", port |-> srv_call.port,
                     root |-> srv_call.document_root, emitted |-> 0, pipe |-> 0]]
             /\ srv_process' = c
             /\ srv_call' = [srv_call EXCEPT !.pc = "spawned", !.spawned = c]
     ELSE /\ srv_call' = [srv_call EXCEPT !.pc = "ret", !.ret = "False"]
          /\ UNCHANGED <<srv_children, srv_process>>
  /\ UNCHANGED <<srv_is_running, srv_port, srv_document_root, srv_stop_logging,
                 srv_log_thread, srv_threads, srv_delivered, srv_calls, srv_others>>

\* The rest of the try block: is_running, the event cleared, the new
\* log-capture thread started, return True.
start_logging ==
  /\ srv_call.pc = "spawned"
  /\ srv_is_running' = TRUE
  /\ srv_stop_logging' = FALSE
  /\ srv_log_thread' = srv_call.spawned
  /\ srv_threads' = [srv_threads EXCEPT ![srv_call.spawned] =
       [pc |-> "check", stream |-> 0, line |-> NoLine]]
  /\ srv_call' = [srv_call EXCEPT !.pc = "ret", !.ret = "True"]
  /\ UNCHANGED <<srv_process, srv_port, srv_document_root, srv_children,
                 srv_delivered, srv_calls, srv_others>>

\* stop up to the try statement: the event is set; with no process held,
\* the rest of stop as well.
StopEntry(f0) ==
  /\ srv_stop_logging' = TRUE
  /\ IF srv_process # 0
     THEN /\ srv_call' = [f0 EXCEPT !.pc = "terminate"]
          /\ UNCHANGED srv_is_running
     ELSE /\ srv_is_running' = FALSE
          /\ srv_call' = IF f0.in_restart
                         THEN [f0 EXCEPT !.pc = "restart_start"]
                         ELSE [f0 EXCEPT !.pc = "ret", !.ret = "None"]

\* server.stop()
stop ==
  /\ srv_call.pc = "idle"
  /\ srv_calls < MaxServerCalls
  /\ srv_calls' = srv_calls + 1
  /\ StopEntry([IdleCall EXCEPT !.op = "stop", !.before = Fields,
                                !.spawned_before = Spawned])
  /\ UNCHANGED <<srv_process, srv_port, srv_document_root, srv_log_thread,
                 srv_children, srv_threads, srv_delivered, srv_others>>

\* self.process.terminate(); self.process.wait(timeout=5), and kill() when
\* the wait times out: the child is gone either way.
terminate ==
  /\ srv_call.pc = "terminate"
  /\ srv_children' = [srv_children EXCEPT ![srv_process].state = "exited"]
  /\ srv_call' = [srv_call EXCEPT !.pc = "finally"]
  /\ UNCHANGED <<srv_process, srv_is_running, srv_port, srv_document_root,
                 srv_stop_logging, srv_log_thread, srv_threads, srv_delivered,
                 srv_calls, srv_others>>

\* finally: self.process = None, then self.is_running = False and the
\* return.
stop_finally ==
  /\ srv_call.pc = "finally"
  /\ srv_process' = 0
  /\ srv_is_running' = FALSE
  /\ srv_call' = IF srv_call.in_restart
                 THEN [srv_call EXCEPT !.pc = "restart_start"]
                 ELSE [srv_call EXCEPT !.pc = "ret", !.ret = "None"]
  /\ UNCHANGED <<srv_port, srv_document_root, srv_stop_logging, srv_log_thread,
                 srv_children, srv_threads, srv_delivered, srv_calls, srv_others>>

\* server.restart(): doc_root and port are read, then self.stop()
restart ==
  /\ srv_call.pc = "idle"
  /\ srv_calls < MaxServerCalls
  /\ Spawned < MaxSpawns
  /\ srv_calls' = srv_calls + 1
  /\ StopEntry([IdleCall EXCEPT !.op = "restart", !.document_root = srv_document_root,
                                !.port = srv_port, !.before = Fields,
                                !.spawned_before = Spawned, !.in_restart = TRUE])
  /\ UNCHANGED <<srv_process, srv_port, srv_document_root, srv_log_thread,
                 srv_children, srv_threads, srv_delivered, srv_others>>

\* return self.start(doc_root, port)
restart_start ==
  /\ srv_call.pc = "restart_start"
  /\ StartEntry("restart", srv_call.document_root, srv_call.port)
  /\ UNCHANGED <<srv_process, srv_is_running, srv_stop_logging, srv_log_thread,
                 srv_children, srv_threads, srv_delivered, srv_calls, srv_others>>

\* The call is over.
server_return ==
  /\ srv_call.pc = "ret"
  /\ srv_call' = [IdleCall EXCEPT !.ret = srv_call.ret]
  /\ UNCHANGED <<srv_process, srv_is_running, srv_port, srv_document_root,
                 srv_stop_logging, srv_log_thread, srv_children, srv_threads,
                 srv_delivered, srv_calls, srv_others>>

\* while not self._stop_logging.is_set() and self.process:
capture_check(t) ==
  /\ srv_threads[t].pc = "check"
  /\ srv_threads' = [srv_threads EXCEPT ![t].pc =
       IF ~srv_stop_logging /\ srv_process # 0 THEN "read" ELSE "done"]
  /\ UNCHANGED <<srv_process, srv_is_running, srv_port, srv_document_root,
                 srv_stop_logging, srv_log_thread, srv_children, srv_call,
                 srv_delivered, srv_calls, srv_others>>

\* self.process.stdout.readline is looked up: the stream of the process
\* the server holds now, or AttributeError on None, which ends the thread.
capture_readline(t) ==
  /\ srv_threads[t].pc = "read"
  /\ srv_threads' = [srv_threads EXCEPT ![t] =
       IF srv_process = 0
       THEN [@ EXCEPT !.pc = "done"]
       ELSE [@ EXCEPT !.pc = "blocked", !.stream = srv_process]]
  /\ UNCHANGED <<srv_process, srv_is_running, srv_port, srv_document_root,
                 srv_stop_logging, srv_log_thread, srv_children, srv_call,
                 srv_delivered, srv_calls, srv_others>>

\* readline() returns: a line of the stream, or '' once the process at
\* its other end is gone and nothing is left to read.
capture_wake(t) ==
  /\ srv_threads[t].pc = "blocked"
  /\ LET c == srv_threads[t].stream
         child == srv_children[c]
     IN IF child.pipe > 0
        THEN /\ srv_children' = [srv_children EXCEPT ![c].pipe = @ - 1]
             /\ srv_threads' = [srv_threads EXCEPT
                  ![t].pc = "deliver",
                  ![t].line = [child |-> c, n |-> child.emitted - child.pipe + 1]]
        ELSE /\ child.state = "exited"
             /\ srv_threads' = [srv_threads EXCEPT ![t].pc = "poll"]
             /\ UNCHANGED srv_children
  /\ UNCHANGED <<srv_process, srv_is_running, srv_port, srv_document_root,
                 srv_stop_logging, srv_log_thread, srv_call, srv_delivered,
                 srv_calls, srv_others>>

\* self.on_log(line)
capture_deliver(t) ==
  /\ srv_threads[t].pc = "deliver"
  /\ srv_delivered' = srv_delivered \cup
       {[thread |-> t, child |-> srv_threads[t].line.child, n |-> srv_threads[t].line.n]}
  /\ srv_threads' = [srv_threads EXCEPT ![t].pc = "check", ![t].line = NoLine]
  /\ UNCHANGED <<srv_process, srv_is_running, srv_port, srv_document_root,
                 srv_stop_logging, srv_log_thread, srv_children, srv_call,
                 srv_calls, srv_others>>

\* elif self.process.poll() is not None: break, asked of the process the
\* server holds now; AttributeError on None ends the thread.
capture_poll(t) ==
  /\ srv_threads[t].pc = "poll"
  /\ srv_threads' = [srv_threads EXCEPT ![t].pc =
       IF srv_process = 0 THEN "done"
       ELSE IF srv_children[srv_process].state = "exited" THEN "done"
       ELSE "check"]
  /\ UNCHANGED <<srv_process, srv_is_running, srv_port, srv_document_root,
                 srv_stop_logging, srv_log_thread, srv_children, srv_call,
                 srv_delivered, srv_calls, srv_others>>

\* php writes a line to its output.
emit(c) ==
  /\ srv_children[c].state = "running"
  /\ srv_children[c].emitted < MaxLines
  /\ srv_children' = [srv_children EXCEPT ![c].emitted = @ + 1, ![c].pipe = @ + 1]
  /\ UNCHANGED <<srv_process, srv_is_running, srv_port, srv_document_root,
                 srv_stop_logging, srv_log_thread, srv_threads, srv_call,
                 srv_delivered, srv_calls, srv_others>>

\* php exits on its own: it cannot bind the port, or it is killed from
\* outside.
child_exit(c) ==
  /\ srv_children[c].state = "running"
  /\ srv_children' = [srv_children EXCEPT ![c].state = "exited"]
  /\ UNCHANGED <<srv_process, srv_is_running, srv_port, srv_document_root,
                 srv_stop_logging, srv_log_thread, srv_threads, srv_call,
                 srv_delivered, srv_calls, srv_others>>

\* PHPServer(on_log), with some set of ports taken by other programs.
ServerInit ==
  /\ srv_process = 0
  /\ srv_is_running = FALSE
  /\ srv_port = 8000
  /\ srv_document_root = "cwd"
  /\ srv_stop_logging = FALSE
  /\ srv_log_thread = 0
  /\ srv_children = [c \in Pids |-> NoChild]
  /\ srv_threads = [t \in Pids |-> NoThread]
  /\ srv_call = IdleCall
  /\ srv_delivered = {}
  /\ srv_calls = 0
  /\ fp_listening \in ListeningSets
  /\ fp_start = 0
  /\ fp_attempts = 0
  /\ fp_i = 0
  /\ fp_pc = "off"
  /\ fp_result = NO_PORT
  /\ ClassifyOff
  /\ ValidateOff
  /\ DbOff
  /\ ConfigOff

ServerNext ==
  \/ \E r \in Roots, n \in StartPorts : start(r, n)
  \/ \E o \in SpawnOutcomes : Popen(o)
  \/ start_logging
  \/ stop
  \/ terminate
  \/ stop_finally
  \/ restart
  \/ restart_start
  \/ server_return
  \/ \E t \in Pids : capture_check(t)
  \/ \E t \in Pids : capture_readline(t)
  \/ \E t \in Pids : capture_wake(t)
  \/ \E t \in Pids : capture_deliver(t)
  \/ \E t \in Pids : capture_poll(t)
  \/ \E c \in Pids : emit(c)
  \/ \E c \in Pids : child_exit(c)

SpecServer == ServerInit /\ [][ServerNext]_vars

\* ------------------------------------------------------------------------
\* Claims about the classifier (checked under SpecClassify)
\* ------------------------------------------------------------------------

Read == TRUE
Write == FALSE

SpecWhitespace == {SP, TAB, LF, CR}

SpecKeywords == {KW_SELECT, KW_PRAGMA, KW_EXPLAIN, KW_WITH}

\* The two characters are the same letter, whatever their case, or the same
\* character.
SameIgnoringCase(a, b) ==
  \/ a = b
  \/ \E i \in DOMAIN LowerLetters :
       {a, b} \subseteq {LowerLetters[i], UpperLetters[i]}

EqualsIgnoringCase(s, t) ==
  /\ Len(s) = Len(t)
  /\ \A i \in DOMAIN s : SameIgnoringCase(s[i], t[i])

\* The first whitespace-delimited token of a text that starts with none.
FirstToken(q) ==
  LET stops == {i \in DOMAIN q : q[i] \in SpecWhitespace}
      first == IF stops = {} THEN Len(q) + 1
               ELSE CHOOSE i \in stops : \A j \in stops : i <= j
  IN SubSeq(q, 1, first - 1)

\* The text is not empty and has no leading semicolon, whitespace or comment.
NoLeading(q) ==
  /\ q # <<>>
  /\ q[1] \notin SpecWhitespace \cup {SEMI}
  /\ ~StartsWith(q, DASHES)
  /\ ~StartsWith(q, OPENC)

\* C7: for a text with no leading semicolon, whitespace or comment the
\* classifier returns Read exactly when the first whitespace-delimited token
\* is, ignoring case, one of SELECT, PRAGMA, EXPLAIN, WITH, and Write for
\* every other first token.
C7_FirstTokenDecides ==
  (cl_pc = "done" /\ NoLeading(cl_query)) =>
    (cl_plain = Read <=>
       \E k \in SpecKeywords : EqualsIgnoringCase(FirstToken(cl_query), k))

\* A keyword in mixed case, followed by more text, has been classified Read.
C7_Witness ==
  /\ cl_pc = "done"
  /\ NoLeading(cl_query)
  /\ FirstToken(cl_query) = W_With
  /\ Len(cl_query) > Len(W_With)
  /\ cl_plain = Read

\* The prefix is a run of semicolons and whitespace characters.
IsSeparatorRun(p) == Range(p) \subseteq SpecWhitespace \cup {SEMI}

\* C8: a prefix made only of semicolons and whitespace characters (space,
\* tab, line feed, carriage return) never changes the classification.
C8_SeparatorPrefixIgnored ==
  (cl_pc = "done" /\ IsSeparatorRun(cl_prefix)) => cl_prefixed = cl_plain

\* The position after the comment a text starts with, as SQL delimits
\* comments: a line comment ends with its line break, a block comment with
\* the first closing marker after its opening marker; 0 when the comment
\* is not complete.
CommentEnd(p) ==
  IF StartsWith(p, DASHES)
  THEN LET n == Find(p, <<LF>>) IN IF n = -1 THEN 0 ELSE n + 1
  ELSE LET n == Find(Drop(p, 2), CLOSEC) IN IF n = -1 THEN 0 ELSE n + 4

\* The text is made of complete comments and runs of semicolons and
\* whitespace, and of nothing else.
RECURSIVE IsCommentRun(_)
IsCommentRun(p) ==
  IF p = <<>> THEN TRUE
  ELSE IF p[1] \in SpecWhitespace \cup {SEMI} THEN IsCommentRun(Tail(p))
  ELSE IF StartsWith(p, DASHES) \/ StartsWith(p, OPENC)
       THEN CommentEnd(p) # 0 /\ IsCommentRun(Drop(p, CommentEnd(p)))
  ELSE FALSE

\* C9: complete comments before a query, alone or alternating with runs of
\* semicolons and whitespace, never change the classification.
C9_CommentPrefixIgnored ==
  (cl_pc = "done" /\ IsCommentRun(cl_prefix) /\ ~IsSeparatorRun(cl_prefix)) =>
    cl_prefixed = cl_plain

\* What is left of a text after its leading semicolons, whitespace and
\* comments are stripped to a fixed point; a comment that is not closed
\* takes the rest of the text.
RECURSIVE SpecStripped(_)
SpecStripped(q) ==
  IF q = <<>> THEN <<>>
  ELSE IF q[1] \in SpecWhitespace \cup {SEMI} THEN SpecStripped(Tail(q))
  ELSE IF StartsWith(q, DASHES) \/ StartsWith(q, OPENC)
       THEN IF CommentEnd(q) = 0 THEN <<>>
            ELSE SpecStripped(Drop(q, CommentEnd(q)))
  ELSE q

\* C10: a text of which stripping leaves nothing is classified Read.
C10_EmptyRemainderIsRead ==
  (cl_pc = "done" /\ SpecStripped(cl_query) = <<>>) => cl_plain = Read

\* ------------------------------------------------------------------------
\* Claims about the identifier validator (checked under SpecValidate)
\* ------------------------------------------------------------------------

\* C5: the validator returns true exactly for a non-empty name whose first
\* character is a letter or an underscore and whose other characters are
\* letters, digits or underscores; so it returns false for the empty name,
\* for a name starting with a digit and for a name holding ';' or '-'.
C5_ValidatorMatchesPattern ==
  v_pc = "done" =>
    /\ v_result <=>
          /\ Len(v_name) >= 1
          /\ v_name[1] \in Letters \cup {"_"}
          /\ \A i \in 2..Len(v_name) : v_name[i] \in Letters \cup Digits \cup {"_"}
    /\ v_name = <<>> => ~v_result
    /\ (v_name # <<>> /\ v_name[1] \in Digits) => ~v_result
    /\ (Range(v_name) \cap {";", "-"} # {}) => ~v_result

\* A name with a digit and an underscore after its first letter was accepted.
C5_Witness ==
  /\ v_pc = "done"
  /\ v_name = <<"T", "1", "_">>
  /\ v_result

\* ------------------------------------------------------------------------
\* Claims about DatabaseManager (checked under Spec)
\* ------------------------------------------------------------------------

\* The call of thread p has reached its return statement.
Returning(p) == fr[p].pc = "ret"

\* The path the call was made with named an existing store file.
HadStore(p) == fr[p].path \in FilePaths /\ fr[p].disk0[fr[p].path].exists

\* The call left no trace in the engine: no connection, no statement, no
\* change of any file.
Untouched(p) == ~fr[p].opened /\ fr[p].sent = <<>> /\ disk = fr[p].disk0

\* C1: while read-only mode is on, an execute call with a query classified
\* Write fails as a read-only violation, opens no connection, executes
\* nothing and leaves the store as it was.
C1_ReadOnlyRejectsWrites ==
  \A p \in Procs :
    (/\ Returning(p)
     /\ fr[p].op = "execute"
     /\ fr[p].ro
     /\ HadStore(p)
     /\ is_read_query(fr[p].query.text) = Write)
    => /\ ~fr[p].result.ok
       /\ fr[p].result.value = <<"Read-only mode">>
       /\ Untouched(p)

\* C2: a call that fails after the engine has started on its statement
\* leaves every store as it was before the call, and nothing pending.
C2_FailedCallCommitsNothing ==
  \A p \in Procs :
    (Returning(p) /\ ~fr[p].result.ok /\ fr[p].sent # <<>>)
    => /\ disk = fr[p].disk0
       /\ \A h \in HandleIds : ~handles[h].open

\* C3: whenever no call is in progress, no connection handle is open and
\* the manager holds none.
C3_NoHandleOutsideCalls ==
  (\A p \in Procs : fr[p].pc \in {"idle", "ret"})
  => /\ \A h \in HandleIds : ~handles[h].open
     /\ self_connection = NOCONN

\* A call that opened a connection and whose statement raised has reached
\* its return statement.
C3_Witness ==
  \E p \in Procs :
    /\ Returning(p)
    /\ fr[p].opened
    /\ fr[p].exc = SQLITE_ERROR
    /\ ~fr[p].result.ok

\* C4: a call made while the path is unset or empty fails with 'No database
\* selected', a call made with a path that names no existing file fails
\* with 'Database file not found'; neither opens a connection, executes a
\* statement or creates a file.
C4_PathChecks ==
  \A p \in Procs :
    Returning(p) =>
      /\ Falsy(fr[p].path) =>
           /\ fr[p].result = Err(<<"No database selected">>)
           /\ Untouched(p)
      /\ (fr[p].path \in FilePaths /\ ~fr[p].disk0[fr[p].path].exists) =>
           /\ fr[p].result = Err(<<"Database file not found: ", fr[p].path>>)
           /\ Untouched(p)
           /\ ~disk[fr[p].path].exists

\* The second call of a run, a CREATE TABLE sent to a path with no file
\* behind it, was turned down and made no file.
C4_Witness ==
  \E p \in Procs :
    /\ Returning(p)
    /\ fr[p].path = "b.sqlite"
    /\ fr[p].query.op.kind = "create"
    /\ ~disk["b.sqlite"].exists
    /\ ~fr[p].result.ok
    /\ ncalls = 2

\* C6: get_table_info called with a name that fails the identifier pattern
\* returns an empty sequence and sends no statement to the store.
C6_InvalidNameNeverSent ==
  \A p \in Procs :
    (/\ Returning(p)
     /\ fr[p].op = "get_table_info"
     /\ ~validate_table_name(fr[p].arg))
    => /\ ReturnValue(fr[p]) = <<>>
       /\ fr[p].sent = <<>>

\* The rows the INSERTs gave a table, as SELECT * returns them: in the
\* order of the primary key, each with the name every INSERT of the model
\* gives.
InsertedRows(ids) ==
  LET sorted == SortedIds(ids)
  IN [i \in DOMAIN sorted |-> <<sorted[i], "n">>]

\* C11: when the calls on a store so far were a successful CREATE TABLE and
\* successful INSERTs, a SELECT * of that table returns a ReadResult with
\* the table's column names in order, exactly the inserted rows, and their
\* number as count.
C11_CommittedWritesVisible ==
  \A p \in Procs :
    (/\ Returning(p)
     /\ fr[p].op = "execute"
     /\ fr[p].query.op.kind = "select"
     /\ fr[p].sent # <<>>
     /\ HadStore(p)
     /\ history[fr[p].path].clean
     /\ fr[p].query.op.table \in history[fr[p].path].tables)
    => /\ fr[p].result.ok
       /\ fr[p].result.value =
            [columns |-> <<"id", "name">>,
             rows |-> InsertedRows(history[fr[p].path].rows[fr[p].query.op.table]),
             count |-> Cardinality(history[fr[p].path].rows[fr[p].query.op.table])]

\* The place of a name in the lexicographic order of the names.
Rank(name) == CHOOSE i \in DOMAIN TableOrder : TableOrder[i] = name

\* The sequence holds exactly the given names, each once, in lexicographic
\* order.
IsLexicographicListOf(names, given) ==
  /\ Range(names) = given
  /\ \A i, j \in DOMAIN names : i < j => Rank(names[i]) < Rank(names[j])

\* C12: list_tables returns the names of all tables of the store in
\* lexicographic order, whatever the order of their creation, and the same
\* sequence as the call before it when no write was made since; it returns
\* the empty sequence when the underlying execute fails.
C12_ListTablesSorted ==
  \A p \in Procs :
    (Returning(p) /\ fr[p].op = "list_tables") =>
      IF fr[p].result.ok
      THEN /\ IsLexicographicListOf(ReturnValue(fr[p]), Range(disk[fr[p].path].order))
           /\ history[fr[p].path].listed =>
                ReturnValue(fr[p]) = history[fr[p].path].names
      ELSE ReturnValue(fr[p]) = <<>>

\* list_tables has listed two tables in the reverse of the order they were
\* created in.
C12_Witness ==
  \E p \in Procs :
    /\ Returning(p)
    /\ fr[p].op = "list_tables"
    /\ fr[p].result.ok
    /\ disk[fr[p].path].order = <<"b", "a">>
    /\ ReturnValue(fr[p]) = <<"a", "b">>

\* list_tables has returned the same sequence as the call before it.
C12_WitnessRepeated ==
  \E p \in Procs :
    /\ Returning(p)
    /\ fr[p].op = "list_tables"
    /\ fr[p].result.ok
    /\ history[fr[p].path].listed
    /\ ReturnValue(fr[p]) = <<"a">>

\* The call of thread p returns a ReadResult.
ReturnsReadResult(p) ==
  /\ Returning(p)
  /\ fr[p].result.ok
  /\ "rows" \in DOMAIN fr[p].result.value

\* C13: in every ReadResult that execute returns, count is the number of
\* rows and every row is as long as columns; when the statement had no
\* result description, columns and rows are both empty.
C13_ReadResultShape ==
  \A p \in Procs :
    ReturnsReadResult(p) =>
      LET res == fr[p].result.value
      IN /\ res.count = Len(res.rows)
         /\ \A i \in DOMAIN res.rows : Len(res.rows[i]) = Len(res.columns)
         /\ fr[p].cursor.description = NO_DESCRIPTION =>
              (res.columns = <<>> /\ res.rows = <<>>)

\* A SELECT has returned two rows of two columns.
C13_Witness ==
  \E p \in Procs :
    /\ ReturnsReadResult(p)
    /\ fr[p].query.op.kind = "select"
    /\ Len(fr[p].result.value.rows) = 2
    /\ Len(fr[p].result.value.columns) = 2
    /\ fr[p].result.value.count = 2

\* A statement with no result description, run as a read query, has
\* returned an empty ReadResult.
C13_WitnessNoDescription ==
  \E p \in Procs :
    /\ ReturnsReadResult(p)
    /\ fr[p].cursor.description = NO_DESCRIPTION
    /\ fr[p].result.value.count = 0

\* The kind the specification gives a failure, by where the failure arose.
QueryError == "QueryError"
InternalError == "InternalError"

SpecErrorKind(exc) == IF exc = SQLITE_ERROR THEN QueryError ELSE InternalError

\* C14: a call that fails by an exception of the storage engine returns a
\* failure of kind QueryError with the engine's message unchanged, a call
\* that fails by any other exception one of kind InternalError, and the
\* kind is part of the returned outcome, so that the caller can tell them
\* apart.
C14_ErrorKindsTold ==
  \A p \in Procs :
    (Returning(p) /\ fr[p].exc # "") =>
      /\ ~fr[p].result.ok
      /\ fr[p].result.value = <<fr[p].msg>>
      /\ "kind" \in DOMAIN fr[p].result
      /\ fr[p].result.kind = SpecErrorKind(fr[p].exc)

\* C15: every call returns exactly one outcome, a success with a result or
\* a failure with a message, and no exception raised by connecting or by
\* running the statement leaves the call.
C15_OneOutcomeNoException ==
  \A p \in Procs :
    Returning(p) =>
      /\ fr[p].raised = ""
      /\ IF fr[p].result.ok
         THEN DOMAIN fr[p].result.value \in {{"columns", "rows", "count"}, {"affected"}}
         ELSE fr[p].result.value # <<>>

\* A statement raised an exception that is no sqlite3.Error, and the call
\* has turned it into a failure.
C15_Witness ==
  \E p \in Procs :
    /\ Returning(p)
    /\ fr[p].opened
    /\ fr[p].exc = OTHER_ERROR
    /\ fr[p].result = Err(<<"surrogates not allowed">>)

\* C16: a call that is turned down before it connects touches nothing; a
\* call that runs its statement runs one statement and, when it returns,
\* the store is as the statement left it if the statement succeeded
\* (Committed) and as it was before the call if the statement failed
\* (RolledBack); in both cases the connection is closed and no transaction
\* is left open for the next call.
C16_CallCycle ==
  \A p \in Procs :
    Returning(p) =>
      /\ \A h \in DOMAIN handles : ~handles[h].open /\ ~handles[h].txn
      /\ IF fr[p].sent = <<>>
         THEN Untouched(p)
         ELSE /\ Len(fr[p].sent) = 1
              /\ fr[p].exc = "" => disk = [fr[p].disk0 EXCEPT ![fr[p].path] = fr[p].left]
              /\ fr[p].exc # "" => disk = fr[p].disk0

\* The call of thread p is inside the with block of connection().
Connected(p) == fr[p].pc \in {"exec", "finish", "close"}

\* The manager keeps no connection, and a call that is connected is
\* connected to the store the path names.
C18_NoCachedConnection ==
  /\ self_connection = NOCONN
  /\ \A p \in Procs :
       Connected(p) =>
         /\ handles[fr[p].conn].path = db_path
         /\ fr[p].path = db_path

\* C18: a step that changes the stored path changes nothing else: the
\* read-only flag and the contents of every store stay as they are and no
\* connection is open after it; every later call runs against the new
\* path; and in every reachable state the manager holds no cached
\* connection.
C18_SetStoreChangesOnlyPath ==
  /\ []C18_NoCachedConnection
  /\ [][db_path' # db_path =>
          /\ read_only' = read_only
          /\ disk' = disk
          /\ fr' = fr
          /\ self_connection' = NOCONN
          /\ \A h \in HandleIds : ~handles'[h].open]_vars

\* After a table was made in one store with the read-only flag set, the
\* path was changed, and a call is connected to the store of the new path.
C18_Witness ==
  /\ db_path = "b.sqlite"
  /\ read_only
  /\ disk["a.sqlite"].order = <<"a">>
  /\ disk["b.sqlite"].order = <<>>
  /\ \E p \in Procs : Connected(p) /\ handles[fr[p].conn].path = "b.sqlite"

\* ------------------------------------------------------------------------
\* Claims about concurrent calls (checked under SpecConcurrent)
\* ------------------------------------------------------------------------

\* C17: in every interleaving of concurrent execute calls, each call works
\* on a connection handle it opened itself, which stays open until the call
\* closes it; no two calls share a handle; every open handle belongs to a
\* call in progress, so none is open once all calls have returned.
C17_OwnHandles ==
  /\ \A p \in Procs :
       Connected(p) =>
         /\ fr[p].conn \in HandleIds
         /\ handles[fr[p].conn].open
         /\ handles[fr[p].conn].owner = p
  /\ \A p, q \in Procs : (p # q /\ Connected(p) /\ Connected(q)) => fr[p].conn # fr[q].conn
  /\ \A h \in HandleIds :
       handles[h].open => \E p \in Procs : Connected(p) /\ fr[p].conn = h
  /\ self_connection = NOCONN

\* Two calls are in progress at once, each with its own open handle, one
\* of them holding a transaction.
C17_Witness ==
  /\ Connected("ui")
  /\ Connected("bg")
  /\ fr["ui"].conn # fr["bg"].conn
  /\ handles[fr["ui"].conn].open
  /\ handles[fr["bg"].conn].open
  /\ handles[fr["bg"].conn].txn

\* Both threads have made a call and every call has returned, with no
\* handle left open.
C17_WitnessAllReturned ==
  /\ ncalls = MaxCalls
  /\ \A p \in Procs : fr[p].pc = "idle" /\ fr[p].ret # <<>>
  /\ \A h \in HandleIds : ~handles[h].open

\* ------------------------------------------------------------------------
\* Claims about find_available_port (checked under SpecPorts)
\* ------------------------------------------------------------------------

\* The numbers start .. start + n - 1 are all port numbers.
RangeOfPorts == fp_start + fp_attempts - 1 <= MaxPort

\* The ports of the range that are not in use.
FreeInRange ==
  {q \in fp_start..(fp_start + fp_attempts - 1) : q \notin fp_listening}

\* C19: for a range of ports, find_available_port(start, n) returns the
\* smallest port of start .. start + n - 1 that is not in use, and None
\* exactly when all n ports are in use; it returns no port outside the
\* range.
C19_SmallestFreePort ==
  (fp_pc \in {"done", "raised"} /\ RangeOfPorts) =>
    /\ fp_pc = "done"
    /\ fp_result = NO_PORT <=> FreeInRange = {}
    /\ fp_result # NO_PORT =>
         /\ fp_result \in FreeInRange
         /\ \A q \in FreeInRange : fp_result <= q
         /\ fp_start <= fp_result /\ fp_result < fp_start + fp_attempts

\* The search went past two ports in use and returned the third.
C19_Witness ==
  /\ fp_pc = "done"
  /\ fp_attempts = 3
  /\ fp_result = fp_start + 2
  /\ {fp_start, fp_start + 1} \subseteq fp_listening

\* Every port of a range of three was in use and the search returned None.
C19_WitnessNone ==
  /\ fp_pc = "done"
  /\ fp_attempts = 3
  /\ RangeOfPorts
  /\ fp_result = NO_PORT

\* ------------------------------------------------------------------------
\* Claims about Config (checked under SpecConfig)
\* ------------------------------------------------------------------------

\* C20: when every save so far has succeeded, a new Config on the same
\* directory returns for every key that was set the value most recently
\* set for it, and for every default key that was never set its default.
C20_ReloadReturnsLastSet ==
  (cfg_pc = "loaded" /\ cfg_saved) =>
    \A k \in CfgKeys :
      /\ cfg_last[k] # MISSING => get(k) = cfg_last[k]
      /\ (cfg_last[k] = MISSING /\ DEFAULT_CONFIG[k] # MISSING) => get(k) = DEFAULT_CONFIG[k]

\* A new Config returns a port that was set as an integer, a folder name
\* set with a quote and a backslash in it, and the default window geometry.
C20_Witness ==
  /\ cfg_pc = "loaded"
  /\ cfg_saved
  /\ cfg_sets = 2
  /\ get("port") = CfgInt(9000)
  /\ get("last_project") = CfgStr(<<QUOTE, BACKSLASH, "n">>)
  /\ get("window_geometry") = DEFAULT_CONFIG["window_geometry"]

\* ------------------------------------------------------------------------
\* Claims about transaction() (checked under SpecTransaction)
\* ------------------------------------------------------------------------

\* The frame of a call of transaction().
InTransaction(p) == fr[p].op = "transaction"

C21_WitnessCommitted ==
  \E p \in Procs :
    /\ InTransaction(p) /\ fr[p].pc = "ret"
    /\ Len(fr[p].sent) = 2
    /\ fr[p].commits = 1
    /\ fr[p].left = disk[fr[p].path]
    /\ fr[p].left # fr[p].disk0[fr[p].path]

\* ------------------------------------------------------------------------
\* Claims about the commit of execute (checked under Spec)
\* ------------------------------------------------------------------------

\* The call is one of execute, made directly or by a schema helper, and
\* its return is due.
ExecuteOver(p) == fr[p].op \in {"execute", "list_tables", "get_table_info"} /\ fr[p].pc = "ret"

\* C22: execute commits only for a query classified Write whose statement
\* ran without error, and at most once per call; for a query classified
\* Read it never commits, so what a Read-classified statement changed
\* inside an open transaction is gone once the connection is closed.
C22_CommitOnlyForWrite ==
  \A p \in Procs :
    ExecuteOver(p) =>
      /\ fr[p].commits <= 1
      /\ fr[p].commits = 1 =>
            ~fr[p].is_read /\ fr[p].sent # <<>> /\ fr[p].exc = "" /\ fr[p].result.ok
      /\ fr[p].is_read => fr[p].commits = 0
      /\ fr[p].is_read /\ fr[p].sent # <<>> /\ OpensTransaction(fr[p].query.op) =>
            disk[fr[p].path] = fr[p].disk0[fr[p].path]

\* A call whose statement, classified Read, inserted a row in the
\* transaction the sqlite3 module opened for it: the call reports success
\* and the row is not in the store.
C22_Witness ==
  \E p \in Procs :
    /\ ExecuteOver(p)
    /\ fr[p].is_read /\ fr[p].result.ok
    /\ OpensTransaction(fr[p].query.op)
    /\ fr[p].left # fr[p].disk0[fr[p].path]
    /\ disk[fr[p].path] = fr[p].disk0[fr[p].path]

\* A call classified Write that committed the row it inserted.
C22_WitnessCommitted ==
  \E p \in Procs :
    /\ ExecuteOver(p)
    /\ ~fr[p].is_read /\ fr[p].commits = 1
    /\ OpensTransaction(fr[p].query.op)
    /\ disk[fr[p].path] = fr[p].left
    /\ disk[fr[p].path] # fr[p].disk0[fr[p].path]

\* ------------------------------------------------------------------------
\* Claims about block comments (checked under SpecClassify)
\* ------------------------------------------------------------------------

\* The text the classifier has to classify once the leading semicolons and
\* whitespace are stripped.
Remaining == LStrip(cl_prefix \o cl_query, StripChars)

\* What follows the block comment a text starts with: the text after the
\* first closing marker that begins after the opening marker, nothing when
\* there is none.
AfterBlockComment(t) == IF CommentEnd(t) = 0 THEN <<>> ELSE Drop(t, CommentEnd(t))

\* C23: when the text remaining to classify starts with the opening marker
\* of a block comment, the classifier removes the text up to and including
\* the first closing marker that begins after the two characters of the
\* opening marker; the three characters of a slash, a star and a slash are
\* no complete comment, and the text after them is still in the comment.
C23_ClosingMarkerAfterOpening ==
  (cl_pc = "done" /\ StartsWith(Remaining, OPENC)) =>
    /\ SkipComment(Remaining) = LStrip(AfterBlockComment(Remaining), StripChars)
    /\ cl_prefixed = is_read_query(AfterBlockComment(Remaining))

\* ------------------------------------------------------------------------
\* Claims about the shape of a result (checked under Spec)
\* ------------------------------------------------------------------------

\* The keys of the two result dictionaries.
ReadResultKeys == {"columns", "rows", "count"}
WriteResultKeys == {"affected"}

\* The call of execute has succeeded and its return is due.
Succeeded(p) == ExecuteOver(p) /\ fr[p].result.ok

\* C24: a successful execute returns a ReadResult (columns, rows, count)
\* exactly when the query is classified Read and a WriteResult (affected
\* only) exactly when it is classified Write; the classification alone
\* decides the shape, and no successful result has both the row fields and
\* the affected field.
C24_ShapeFollowsClassification ==
  \A p \in Procs :
    Succeeded(p) =>
      LET keys == DOMAIN fr[p].result.value
          classified == is_read_query(fr[p].query.text)
      IN /\ (keys = ReadResultKeys) <=> (classified = Read)
         /\ (keys = WriteResultKeys) <=> (classified = Write)
         /\ ~({"rows", "affected"} \subseteq keys)

\* A successful INSERT that is classified Read and answered with a
\* ReadResult of no rows.
C24_Witness ==
  \E p \in Procs :
    /\ Succeeded(p)
    /\ IsWriteOp(fr[p].query.op)
    /\ is_read_query(fr[p].query.text) = Read
    /\ DOMAIN fr[p].result.value = ReadResultKeys

\* A successful write answered with a WriteResult.
C24_WitnessWrite ==
  \E p \in Procs :
    /\ Succeeded(p)
    /\ is_read_query(fr[p].query.text) = Write
    /\ fr[p].result.value = [affected |-> 1]

\* ------------------------------------------------------------------------
\* Claims about PHPServer (checked under SpecServer)
\* ------------------------------------------------------------------------

\* The php processes of the server that have not exited.
LiveChildren == {c \in Pids : srv_children[c].state = "running"}

\* C25: start called while is_running is true returns False, spawns no
\* process and changes no field; whatever calls of start, stop and restart
\* were made, the server has at most one child process; and after stop
\* returns is_running is false and process is None.
C25_StartGuardedOneChild ==
  /\ (srv_call.op = "start" /\ srv_call.pc = "ret" /\ srv_call.before.is_running) =>
       /\ srv_call.ret = "False"
       /\ Spawned = srv_call.spawned_before
       /\ Fields = srv_call.before
  /\ Cardinality(LiveChildren) <= 1
  /\ ((srv_call.op = "stop" /\ srv_call.pc = "ret") \/ srv_call.pc = "restart_start") =>
       ~srv_is_running /\ srv_process = 0

\* A start that was refused while the child of an earlier start runs.
C25_Witness ==
  /\ srv_call.op = "start" /\ srv_call.pc = "ret"
  /\ srv_call.before.is_running
  /\ srv_call.ret = "False"
  /\ LiveChildren = {srv_process}

\* A stop that has returned after it ended the child of a restart.
C25_WitnessStopped ==
  /\ srv_call.op = "stop" /\ srv_call.pc = "ret"
  /\ srv_call.before.process = 2
  /\ LiveChildren = {}

\* No log-capture thread is at work.
Quiet == \A t \in Pids : srv_threads[t].pc \in {"unborn", "done"}

\* C26: is_running is true only while the child process exists and has not
\* exited; once a child that exited on its own has been seen to be gone,
\* is_running is not left true.
C26_RunningMeansChildAlive ==
  (srv_call.pc = "idle" /\ Quiet /\ srv_is_running) =>
    (srv_process # 0 /\ srv_children[srv_process].state = "running")

\* The thread has taken a stream to read from and not yet come back to
\* the head of its loop.
Reading(t) == srv_threads[t].pc \in {"blocked", "deliver"}

\* C27: whatever the interleaving of the caller's stop and start calls
\* with the log-capture threads, a thread reads only the output of the
\* process it was started for, at most one thread reads the output of the
\* process the server holds, and so no line reaches on_log from a thread
\* of another process.
C27_OneReaderPerProcess ==
  /\ \A t \in Pids : Reading(t) => srv_threads[t].stream = t
  /\ Cardinality({t \in Pids : Reading(t) /\ srv_threads[t].stream = srv_process}) <= 1
  /\ \A d \in srv_delivered : d.thread = d.child

\* C28: a start that returns False leaves port, document_root, process
\* and is_running as they were before the call; a start that returns True
\* leaves port equal to the port the spawned process was given.
C28_FailedStartChangesNothing ==
  (srv_call.op \in {"start", "restart"} /\ srv_call.pc = "ret") =>
    /\ srv_call.ret = "False" => Fields = srv_call.before
    /\ srv_call.ret = "True" => srv_port = srv_children[srv_process].port

\* ------------------------------------------------------------------------
\* Claims about loading the configuration (checked under SpecConfigLoad)
\* ------------------------------------------------------------------------

\* The keys of DEFAULT_CONFIG.
DefaultKeys == {k \in CfgKeys : DEFAULT_CONFIG[k] # MISSING}

\* config.json holds a JSON object.
HoldsObject(file) == file.exists /\ file.utf8 /\ file.valid /\ file.object

\* C29: constructing a Config and calling load never raise; with the file
\* missing, unreadable or not a valid settings object the configuration is
\* the defaults, with a valid object it is the defaults overridden by the
\* keys of the file; every default key is present in every reachable
\* state.
C29_LoadNeverRaises ==
  /\ cfg_pc # "raised"
  /\ (cfg_pc = "loaded" /\ ~HoldsObject(cfg_file)) => cfg_data = DEFAULT_CONFIG
  /\ (cfg_pc = "loaded" /\ HoldsObject(cfg_file)) =>
       \A k \in CfgKeys :
         cfg_data[k] = IF cfg_file.obj[k] # <<>> THEN JsonDecode(cfg_file.obj[k])
                       ELSE DEFAULT_CONFIG[k]
  /\ cfg_pc \in {"loaded", "set"} => \A k \in DefaultKeys : cfg_data[k] # MISSING

====
